---- MODULE Spec2Model ----
(***************************************************************************)
(* A model of the 33ve music crawler (yuzhishuo/music-search):             *)
(*   - the song dataset file and the operations that write it              *)
(*     (SongCrawler._merge_songs_into_file, SongCrawler.save_to_file,      *)
(*     MusicCrawlerManager._merge_songs_into_file,                         *)
(*     InteractiveCrawler._merge_songs_into_main_file);                    *)
(*   - the per-singer recrawl cache and its file crawl_cache.json          *)
(*     (SongCrawler._load_cache, _is_recent, _update_last_crawl,           *)
(*     _save_cache);                                                       *)
(*   - one crawl pass over the singers (SongCrawler.crawl_all_songs with   *)
(*     its thread pool, SafeCrawler.crawl_all_songs_safe) and the          *)
(*     download pool of SongDownloader;                                    *)
(*   - the proxy pool (ProxyPool) and the get_page_content of the three    *)
(*     crawlers;                                                           *)
(*   - the dedup pass of SingerCrawler.crawl_all_singers;                  *)
(*   - SongDownloader's batches, with its limit, its counters and the      *)
(*     file downloaded_cache.json, and the download action of the          *)
(*     InteractiveCrawler that calls it.                                   *)
(* The specifications share the variables: SpecStore (the dataset file),   *)
(* SpecMerge (the merge functions), SpecCache (the recrawl cache and its   *)
(* clock), SpecMark (concurrent _update_last_crawl calls), Spec and        *)
(* SpecLive (the crawl pass, without and with fairness), SpecPools (the    *)
(* crawl pool and the download pool), SpecFetch (fetches over the proxy    *)
(* pool), SpecPace (the sleeps of a fetch), SpecProxy (the pool's          *)
(* refresh), SpecStatus (the pool's status over its operations),           *)
(* SpecSingers (the dedup pass), SpecDownload (SongDownloader's batches    *)
(* over several runs, their files and downloaded_cache.json) and           *)
(* SpecAction (one download action: its calls of the downloader, the       *)
(* limit, the counters and the concurrent saves of the index).             *)
(***************************************************************************)
EXTENDS Naturals, Integers, Sequences, FiniteSets, TLC

VARIABLES
    file,        \* the dataset file songs_33ve.json on disk
    songs_data,  \* SongCrawler.songs_data, the records collected in memory
    wr,          \* the write of the dataset file that is under way
    committed,   \* history: keys stored by the last write that completed
    lastMerge,   \* history: the merge or save that has just ended
    cache,       \* SongCrawler.cache['singer_last_crawl'], per singer
    cache_file,  \* the file crawl_cache.json on disk
    now,         \* the clock, in days
    cfg_days,    \* config.SINGER_CRAWL_CACHE_DAYS as configured
    verdict,     \* SpecCache: what _is_recent answered today, per singer
    variant,     \* the crawler class of the pass: "song" | "safe"
    safe_mode,   \* SongCrawler.safe_mode (config.SAFE_MODE_ENABLED)
    max_workers, \* SongCrawler.max_workers
    output_file, \* whether crawl_all_songs was given an output_file
    pc,          \* per singer: where its crawl_singer_songs call is
    max_page,    \* per singer: the local max_page (0 outside the call)
    page_num,    \* per singer: the local page_num (0 outside the call)
    singer_songs,\* per singer: the local singer_songs, then the result
    fetches,     \* per singer: get_page_content calls made for it
    freshAtStart,\* history: _is_recent's answer when the unit was started
    marked,      \* history: _update_last_crawl was called for the unit
    raised,      \* history: the unit's handling raised an exception
    fl,          \* per singer: where the scheduler's flush of its result is
    existing,    \* per singer: what its flush read from the file
    log,         \* history: per singer, the get_page_content calls of its
                 \* crawl_singer_songs call while that call goes on
    cache_lock,  \* SongCrawler.cache_lock: 0 when free, else its holder
    mk,          \* per singer: where its _update_last_crawl call is
    stamped,     \* history: the day _update_last_crawl recorded (-1: none)
    mode,        \* main_crawler --mode of the run: "songs" | "download"
    requested,   \* the max_workers the caller passed to SongCrawler
    dl_requested,    \* the max_workers passed to SongDownloader (0: none)
    dl_max_workers,  \* SongDownloader.max_workers
    dpc,         \* per song to download: where its download_song call is
    proxies,         \* ProxyPool.proxies, the candidates
    working_proxies, \* ProxyPool.working_proxies
    failed_proxies,  \* ProxyPool.failed_proxies
    rpc,         \* where refresh_proxies is
    probe,       \* per candidate (by position): its test_proxy outcome
    was_working, \* history: working_proxies when refresh_proxies was called
    crawler,     \* the crawler class fetching: "song" | "safe" | "singer"
    use_proxy,   \* SongCrawler.use_proxy
    max_retries, \* the max_retries of the get_page_content calls
    fpc,         \* per fetch: where its get_page_content call is
    attempt,     \* per fetch: the local attempt
    current_proxy,   \* per fetch: the local current_proxy
    route,       \* per fetch: how the request under way is routed
    made,        \* history: per fetch, the attempts that sent a request
    pickedFrom,  \* history: per fetch, working_proxies at the pick of
                 \* the request under way
    failedWith,  \* history: per fetch, while it goes on, the proxy of its
                 \* last failed attempt
    lastReport,  \* history: the mark_proxy_failed call that has just ended
    slept,       \* history: per fetch, the sleep of get_page_content since
                 \* the request before: "none" | "pacing" | "backoff"
    status,      \* what ProxyPool.get_status returned, the pool unchanged since
    overwrite_existing,  \* SongDownloader.overwrite_existing
    downloaded_index,    \* SongDownloader.downloaded_index['songs'], per song
    target,      \* per song: the file at the path download_song writes
    other_ext,   \* per song: a file of its stem with another extension
    spc,         \* per song: where the batch download is with it
    dl_attempt,  \* per song: the local attempt of download_song
    requests,    \* history: per song, the requests sent for it in this run
    seen,        \* history: per song, what is_song_already_downloaded found
    limit,       \* the limit of the download_songs_list calls (0: None)
    ui_mode,     \* who calls the downloader: the interactive download action
                 \* "singer" | "song", or another caller, "batch"
    calls,       \* the download_songs_list calls the action has made
    downloaded_count,    \* SongDownloader.downloaded_count
    failed_count,        \* SongDownloader.failed_count
    index_file,  \* the file downloaded_cache.json on disk
    idx_buf,     \* per song: the text its _save_downloaded_index has dumped
                 \* and not flushed to the file yet
    started,     \* history: per song, the download_song calls begun for it
                 \* since the downloader was made
    singers_data,    \* SingerCrawler.singers_data
    unique_singers,  \* the dict unique_singers of crawl_all_singers, in
                     \* the order of its keys
    dedup_i,     \* the turns the dedup loop has taken (-1: not in the loop)
    collected    \* history: singers_data as the dedup loop found it

storeVars == <<file, songs_data, wr, committed, lastMerge>>
cacheVars == <<cache, cache_file, now, cfg_days, verdict>>
passVars  == <<variant, safe_mode, max_workers, output_file, pc, max_page, page_num,
               singer_songs, fetches, freshAtStart, marked, raised, fl,
               existing, log>>
markVars  == <<cache_lock, mk, stamped>>
poolVars  == <<mode, requested, dl_requested, dl_max_workers, dpc>>
proxyVars == <<proxies, working_proxies, failed_proxies, rpc, probe,
               was_working>>
fetchVars == <<crawler, use_proxy, max_retries, fpc, attempt, current_proxy,
               route, made, pickedFrom, failedWith, lastReport, slept>>
statVars  == <<status>>
dlVars    == <<overwrite_existing, downloaded_index, target, other_ext, spc,
               dl_attempt, requests, seen>>
callVars  == <<limit, ui_mode, calls>>
countVars == <<downloaded_count, failed_count>>
idxVars   == <<index_file, idx_buf>>
acctVars  == <<callVars, countVars, idxVars, started>>
singerVars == <<singers_data, unique_singers, dedup_i, collected>>
extVars   == <<statVars, dlVars, acctVars, singerVars>>
netVars   == <<markVars, poolVars, proxyVars, fetchVars, extVars>>
\* What the downloader's steps leave alone.
nonDlVars == <<statVars, singerVars, markVars, poolVars, proxyVars, fetchVars,
               storeVars, cacheVars, passVars>>
vars == <<storeVars, cacheVars, passVars, netVars>>

(***************************************************************************)
(* Records and the dataset file                                            *)
(***************************************************************************)

\* Bounds of the model.
MaxNew  == 2    \* longest record list handed to one merge or one extend
MaxData == 3    \* longest songs_data

\* A song record, reduced to the fields the store reads: id, title and
\* singer_name (parse_songs_from_singer_page builds the full record). An id of
\* "" stands for a record without id: `s.get('id') or ...` treats both alike.
Rec(i, t, n) == [id |-> i, title |-> t, singer_name |-> n]

\* What the parser yields always has an id (it is cut out of the link).
CrawledRecords ==
    { Rec("a", "A", "X"), Rec("a", "A - Live", "X"), Rec("b", "B", "Y") }

\* Any record a dataset file or a caller's list may hold.
Records == CrawledRecords \cup { Rec("", "A", "X") }

RECURSIVE SeqsUpTo(_, _)
SeqsUpTo(S, n) ==
    IF n = 0 THEN { <<>> }
    ELSE LET shorter == SeqsUpTo(S, n - 1)
         IN  shorter \cup { Append(q, x) : q \in shorter, x \in S }

RecordLists  == SeqsUpTo(Records, MaxNew)
CrawledLists == SeqsUpTo(CrawledRecords, MaxNew)

\* sk / song_key: the record's id, or singer_name::title when it has none.
sk(s) == IF s.id # "" THEN s.id ELSE s.singer_name \o "::" \o s.title

Keys(songs) == { sk(songs[i]) : i \in DOMAIN songs }

\* Faulty variants of DictPut: one that never replaces (no deduplication),
\* one that keeps the record with the longer title (the parser's rule).
DictPut_Append(d, s) == Append(d, s)

DictPut_KeepLonger(d, s) ==
    IF \E i \in DOMAIN d : sk(d[i]) = sk(s)
    THEN [i \in DOMAIN d |->
            IF sk(d[i]) = sk(s) /\ Len(s.title) > Len(d[i].title)
            THEN s ELSE d[i]]
    ELSE Append(d, s)

\* id2song[sk(s)] = s on a dict that keeps insertion order: an existing key
\* keeps its place and takes the new record, a new key goes to the end. The
\* dict is the sequence of its values (each is stored under its own key).
DictPut(d, s) ==
    IF \E i \in DOMAIN d : sk(d[i]) = sk(s)
    THEN [i \in DOMAIN d |-> IF sk(d[i]) = sk(s) THEN s ELSE d[i]]
    ELSE Append(d, s)

\* `for s in songs: id2song[sk(s)] = s`: each turn of the loop works on the
\* dict the turn before left (`put` and `rest` hold values, so that the dict
\* is computed once per turn however often the next turn reads it).
RECURSIVE Overlay(_, _)
Overlay(d, songs) ==
    IF songs = <<>> THEN d
    ELSE CHOOSE out \in { Overlay(put, rest) :
                              put \in { DictPut(d, Head(songs)) },
                              rest \in { Tail(songs) } } : TRUE

\* final_songs: the existing records keyed, the new ones laid over them.
MergeSongs(old, new) == Overlay(Overlay(<<>>, old), new)

\* singer_stats: the number of records per singer_name.
SingerStats(songs) ==
    [n \in { songs[i].singer_name : i \in DOMAIN songs } |->
        Cardinality({ i \in DOMAIN songs : songs[i].singer_name = n })]

\* The dataset file: absent, unreadable (json.load raises: an empty or cut
\* file), or the JSON object written (crawl_time, a clock reading, left out).
Absent  == [kind |-> "absent"]
Corrupt == [kind |-> "corrupt"]
Dataset(songs, total, singers, stats) ==
    [kind |-> "ok", songs |-> songs, total_songs |-> total,
     total_singers |-> singers, singer_stats |-> stats]

\* `out` of the merge functions and `data` of save_to_file: the counts are
\* taken from the list that is written.
Counted(songs) ==
    Dataset(songs, Len(songs), Cardinality(DOMAIN SingerStats(songs)),
            SingerStats(songs))

\* What a merge reads: the file's songs, [] when the file does not exist.
ExistingSongs(f) == IF f.kind = "ok" THEN f.songs ELSE <<>>

\* out of _merge_songs_into_file / _merge_songs_into_main_file.
MergeOut(f, new) == Counted(MergeSongs(ExistingSongs(f), new))

\* The fallback of MusicCrawlerManager._merge_songs_into_file: the new songs
\* as they are, total_singers 0 and singer_stats {}.
FallbackOut(new) == Dataset(new, Len(new), 0, SingerStats(<<>>))

\* A faulty variant of SaveOut: the statistics count each key once.
SaveOut_StatsOfUnique(data) ==
    Dataset(data, Len(data),
            Cardinality(DOMAIN SingerStats(Overlay(<<>>, data))),
            SingerStats(Overlay(<<>>, data)))

\* data of SongCrawler.save_to_file: songs_data as it is, counted.
SaveOut(data) == Counted(data)

\* JSON text, as json.dump writes it: a string, a number, an array (the
\* sequence of its items) and an object (the set of its members, each a name
\* and a value; the name of a member is a string).
JsonStr(v) == [json |-> "string", s |-> v]
JsonNum(v) == [json |-> "number", n |-> v]

\* The members of a dict of strings (a song) and of numbers (singer_stats).
JsonStrMembers(d) == { <<k, JsonStr(d[k])>> : k \in DOMAIN d }
JsonNumMembers(d) == { <<k, JsonNum(d[k])>> : k \in DOMAIN d }

\* json.dump(out, f): the dataset as JSON text.
JsonDump(out) ==
    [total_songs   |-> JsonNum(out.total_songs),
     total_singers |-> JsonNum(out.total_singers),
     singer_stats  |-> JsonNumMembers(out.singer_stats),
     songs         |-> [i \in DOMAIN out.songs |->
                           JsonStrMembers(out.songs[i])]]

\* The dict json.load builds of an object's members.
JsonStrDict(members) ==
    [k \in { m[1] : m \in members } |->
        (CHOOSE m \in members : m[1] = k)[2].s]
JsonNumDict(members) ==
    [k \in { m[1] : m \in members } |->
        (CHOOSE m \in members : m[1] = k)[2].n]

\* json.load(f) of a text json.dump wrote.
JsonLoad(text) ==
    Dataset([i \in DOMAIN text.songs |-> JsonStrDict(text.songs[i])],
            text.total_songs.n,
            text.total_singers.n,
            JsonNumDict(text.singer_stats))

NoWrite == [op |-> "none"]
NoMerge == [op |-> "none", new |-> <<>>, fallback |-> FALSE, failed |-> FALSE]

(***************************************************************************)
(* The writes of the dataset file                                          *)
(***************************************************************************)

\* `with open(dest, 'w') ... json.dump(out, f)`: open() empties the file, and
\* it holds `out` only once the dump has finished. Until then json.load of
\* the file raises.
BeginWrite(op, out, new, fallback) ==
    /\ wr' = [op |-> op, out |-> out, new |-> new, fallback |-> fallback]
    /\ file' = Corrupt

\* The exception json.load raises on an unreadable file is caught and logged;
\* nothing is written.
MergeFails(op, new) ==
    /\ lastMerge' = [op |-> op, new |-> new, fallback |-> FALSE, failed |-> TRUE]
    /\ UNCHANGED <<file, wr, committed>>

\* SongCrawler._merge_songs_into_file(songs_to_merge, filename).
MergeSongsIntoFile(new) ==
    IF file.kind = "corrupt"
    THEN MergeFails("merge", new)
    ELSE BeginWrite("merge", MergeOut(file, new), new, FALSE)
         /\ UNCHANGED <<committed, lastMerge>>

\* InteractiveCrawler._merge_songs_into_main_file(new_songs, main_file).
MergeSongsIntoMainFile(new) ==
    IF file.kind = "corrupt"
    THEN MergeFails("interactive", new)
    ELSE BeginWrite("interactive", MergeOut(file, new), new, FALSE)
         /\ UNCHANGED <<committed, lastMerge>>

\* MusicCrawlerManager._merge_songs_into_file(new_songs): on an exception it
\* overwrites the file with the new songs alone.
ManagerMergeSongsIntoFile(new) ==
    /\ IF file.kind = "corrupt"
       THEN BeginWrite("manager", FallbackOut(new), new, TRUE)
       ELSE BeginWrite("manager", MergeOut(file, new), new, FALSE)
    /\ UNCHANGED <<committed, lastMerge>>

\* The write under way finishes: the file holds the text of `out`, and
\* `file` is what json.load makes of it.
WriteDone ==
    /\ wr # NoWrite
    /\ file' = JsonLoad(JsonDump(wr.out))
    /\ committed' = Keys(wr.out.songs)
    /\ lastMerge' = [op |-> wr.op, new |-> wr.new, fallback |-> wr.fallback,
                     failed |-> FALSE]
    /\ wr' = NoWrite
    /\ UNCHANGED <<songs_data, cacheVars, passVars, netVars>>

(***************************************************************************)
(* SpecStore: the dataset file over the runs of the crawlers               *)
(***************************************************************************)

\* crawl_singer_songs extends songs_data by the unit's result, and
\* crawl_all_songs, given an output_file, merges a result that is not empty
\* into it (`if output_file and result`).
CrawlUnitFlush(result) ==
    /\ wr = NoWrite
    /\ result # <<>>
    /\ Len(songs_data) + Len(result) <= MaxData
    /\ songs_data' = songs_data \o result
    /\ MergeSongsIntoFile(result)
    /\ UNCHANGED <<cacheVars, passVars, netVars>>

\* The same without output_file (crawl_songs.main, crawl_specific_singer,
\* SafeCrawler), or with an empty result: the result stays in memory.
CrawlUnitNoFlush(result) ==
    /\ wr = NoWrite
    /\ Len(songs_data) + Len(result) <= MaxData
    /\ songs_data' = songs_data \o result
    /\ lastMerge' = NoMerge
    /\ UNCHANGED <<file, wr, committed, cacheVars, passVars, netVars>>

\* MusicCrawlerManager.crawl_songs, after the pass:
\* self._merge_songs_into_file(crawler.songs_data).
ManagerFinalMerge ==
    /\ wr = NoWrite
    /\ ManagerMergeSongsIntoFile(songs_data)
    /\ UNCHANGED <<songs_data, cacheVars, passVars, netVars>>

\* InteractiveCrawler, after the pass:
\* self._merge_songs_into_main_file(crawler.songs_data, "songs_33ve.json").
InteractiveFinalMerge ==
    /\ wr = NoWrite
    /\ MergeSongsIntoMainFile(songs_data)
    /\ UNCHANGED <<songs_data, cacheVars, passVars, netVars>>

\* SongCrawler.save_to_file(filename), as main() calls it after the pass and
\* on KeyboardInterrupt: songs_data is written over the file.
SaveToFile ==
    /\ wr = NoWrite
    /\ BeginWrite("save", SaveOut(songs_data), songs_data, FALSE)
    /\ UNCHANGED <<committed, lastMerge, songs_data, cacheVars, passVars, netVars>>

\* The process is killed while the file is being written: the file stays as
\* open() left it, and what was in memory is gone.
Crash ==
    /\ wr # NoWrite
    /\ wr' = NoWrite
    /\ songs_data' = <<>>
    /\ lastMerge' = [op |-> "crash", new |-> wr.new, fallback |-> FALSE,
                     failed |-> TRUE]
    /\ UNCHANGED <<file, committed, cacheVars, passVars, netVars>>

\* The process ends and a later run starts: SongCrawler.__init__ sets
\* songs_data = [].
NewRun ==
    /\ wr = NoWrite
    /\ songs_data # <<>>
    /\ songs_data' = <<>>
    /\ lastMerge' = NoMerge
    /\ UNCHANGED <<file, wr, committed, cacheVars, passVars, netVars>>

StoreNext ==
    \/ \E result \in CrawledLists : CrawlUnitFlush(result)
    \/ \E result \in CrawledLists : CrawlUnitNoFlush(result)
    \/ ManagerFinalMerge
    \/ InteractiveFinalMerge
    \/ SaveToFile
    \/ WriteDone
    \/ Crash
    \/ NewRun

(***************************************************************************)
(* SpecMerge: the merge functions on any dataset and any list of records   *)
(***************************************************************************)

\* The three merge functions, each applied to the caller's list (held in
\* songs_data, which this specification never changes).
ApplyMerge ==
    /\ wr = NoWrite
    /\ MergeSongsIntoFile(songs_data)
    /\ UNCHANGED <<songs_data, cacheVars, passVars, netVars>>

MergeNext ==
    \/ ApplyMerge
    \/ InteractiveFinalMerge
    \/ ManagerFinalMerge
    \/ WriteDone

(***************************************************************************)
(* The recrawl cache                                                       *)
(***************************************************************************)

NumUnits == 2    \* singers of the singers file
Day0     == 40   \* the day the model's clock starts at
MaxTicks == 2    \* days the clock may advance

Units == 1..NumUnits

\* _DEFAULTS["singer_crawl_cache_days"], and the 28 of SongCrawler.__init__.
DefaultCacheDays == 28

\* An entry of cache['singer_last_crawl']: none, an ISO timestamp as
\* _update_last_crawl writes it (datetime.now().isoformat(), here a day
\* number), a value datetime.fromisoformat rejects, or an ISO timestamp that
\* carries a UTC offset ("2025-01-01T00:00:00+00:00"), which fromisoformat
\* parses into an offset-aware datetime.
NoEntry   == [kind |-> "none"]
BadEntry  == [kind |-> "bad"]
Stamp(d)  == [kind |-> "ts", ts |-> d]
AwareStamp(d) == [kind |-> "aware", ts |-> d]

EmptyCache == [u \in Units |-> NoEntry]

\* The file crawl_cache.json: absent, unreadable (json.load raises), JSON
\* that is not an object (a list, a number), or an object, of which the model
\* keeps the singer_last_crawl map.
CacheAbsent     == [kind |-> "absent"]
CacheUnreadable == [kind |-> "unreadable"]
CacheNotObject  == [kind |-> "notobject"]
CacheObject(m)  == [kind |-> "object", map |-> m]

\* _load_cache: the object the file holds, {} in every other case.
LoadCache(f) == IF f.kind = "object" THEN f.map ELSE EmptyCache

\* The configured SINGER_CRAWL_CACHE_DAYS: a value whose str() is all digits
\* (digits = TRUE, n its value) or anything else (a negative number, a
\* float, null).
Digits(n) == [digits |-> TRUE, n |-> n]
NoDigits  == [digits |-> FALSE, n |-> 0]

\* self.cache_days = int(v) if str(v).isdigit() else 28
CacheDays == IF cfg_days.digits THEN cfg_days.n ELSE DefaultCacheDays

\* _get_last_crawl_ts: the parsed timestamp, None (here -1) when there is no
\* entry or it does not parse.
GetLastCrawlTs(u) ==
    IF cache[u].kind \in {"ts", "aware"} THEN cache[u].ts ELSE -1

\* `datetime.now() - last_dt` in _is_recent, outside any try block, raises
\* TypeError when last_dt is offset-aware (now() is naive).
IsRecentRaises(u) == cache[u].kind = "aware"

\* A faulty variant of _is_recent: <= in place of <.
IsRecent_Inclusive(u) ==
    IF cache[u].kind = "ts" THEN now - cache[u].ts <= CacheDays ELSE FALSE

\* _is_recent: datetime.now() - last_dt < timedelta(days=self.cache_days)
IsRecent(u) ==
    LET last_dt == GetLastCrawlTs(u)
    IN  IF last_dt = -1 THEN FALSE ELSE now - last_dt < CacheDays

\* _update_last_crawl: cache['singer_last_crawl'][id] = now.
UpdateLastCrawl(u) == cache' = [cache EXCEPT ![u] = Stamp(now)]

\* A faulty variant of CacheImage: only the entry just recorded is written.
CacheImage_OwnEntry(c, u) == [v \in Units |-> IF v = u THEN c[v] ELSE NoEntry]

\* What _save_cache, called for singer u, dumps: json.dump(self.cache, f),
\* the whole map as it is in memory at that moment.
CacheImage(c, u) == c

\* _save_cache once its dump has finished.
SaveCache(u) == cache_file' = CacheObject(CacheImage(cache', u))

NoVerdict == [u \in Units |-> "unasked"]

(***************************************************************************)
(* SpecCache: the cache and its clock                                      *)
(***************************************************************************)

\* A day passes.
Tick ==
    /\ now < Day0 + MaxTicks
    /\ now' = now + 1
    /\ verdict' = NoVerdict
    /\ UNCHANGED <<cache, cache_file, cfg_days, storeVars, passVars, netVars>>

\* crawl_singer_songs asks _is_recent(singer_info['id']): the singer is
\* skipped when it answers True and crawled when it answers False; "raised"
\* when the call raises.
AskRecent(u) ==
    /\ verdict' = [verdict EXCEPT ![u] =
                      IF IsRecentRaises(u) THEN "raised"
                      ELSE IF IsRecent(u) THEN "skip" ELSE "crawl"]
    /\ UNCHANGED <<cache, cache_file, now, cfg_days, storeVars, passVars,
                   netVars>>

\* A unit finished: _update_last_crawl(singer_info['id']), which ends with
\* _save_cache().
MarkSuccess(u) ==
    /\ UpdateLastCrawl(u)
    /\ SaveCache(u)
    /\ verdict' = NoVerdict
    /\ UNCHANGED <<now, cfg_days, storeVars, passVars, netVars>>

CacheNext ==
    \/ Tick
    \/ \E u \in Units : AskRecent(u)
    \/ \E u \in Units : MarkSuccess(u)

(***************************************************************************)
(* SpecMark: _update_last_crawl called by several workers at once          *)
(***************************************************************************)

\* _update_last_crawl enters `with self.cache_lock`.
MarkLock(u) ==
    /\ mk[u] = "call"
    /\ cache_lock = 0
    /\ cache_lock' = u
    /\ mk' = [mk EXCEPT ![u] = "locked"]
    /\ UNCHANGED <<stamped, storeVars, cacheVars, passVars, poolVars,
                   proxyVars, fetchVars,
                   extVars>>

\* Under the lock the entry is set to now; the with block ends.
MarkStore(u) ==
    /\ mk[u] = "locked"
    /\ UpdateLastCrawl(u)
    /\ stamped' = [stamped EXCEPT ![u] = now]
    /\ cache_lock' = 0
    /\ mk' = [mk EXCEPT ![u] = "stored"]
    /\ UNCHANGED <<cache_file, now, cfg_days, verdict, storeVars, passVars,
                   poolVars, proxyVars, fetchVars,
                   extVars>>

\* _save_cache, called after the with block has been left, takes the lock
\* again.
SaveLock(u) ==
    /\ mk[u] = "stored"
    /\ cache_lock = 0
    /\ cache_lock' = u
    /\ mk' = [mk EXCEPT ![u] = "opening"]
    /\ UNCHANGED <<stamped, storeVars, cacheVars, passVars, poolVars,
                   proxyVars, fetchVars,
                   extVars>>

\* open(self.cache_file, 'w') empties the file.
SaveOpen(u) ==
    /\ mk[u] = "opening"
    /\ cache_file' = CacheUnreadable
    /\ mk' = [mk EXCEPT ![u] = "dumping"]
    /\ UNCHANGED <<cache_lock, stamped, cache, now, cfg_days, verdict,
                   storeVars, passVars, poolVars, proxyVars, fetchVars,
                   extVars>>

\* json.dump(self.cache, f) finishes, the lock is released and
\* _update_last_crawl returns.
SaveDump(u) ==
    /\ mk[u] = "dumping"
    /\ cache' = cache
    /\ SaveCache(u)
    /\ cache_lock' = 0
    /\ mk' = [mk EXCEPT ![u] = "returned"]
    /\ UNCHANGED <<stamped, now, cfg_days, verdict, storeVars, passVars,
                   poolVars, proxyVars, fetchVars,
                   extVars>>

MarkNext ==
    \/ \E u \in Units : MarkLock(u)
    \/ \E u \in Units : MarkStore(u)
    \/ \E u \in Units : SaveLock(u)
    \/ \E u \in Units : SaveOpen(u)
    \/ \E u \in Units : SaveDump(u)
    \/ Tick

(***************************************************************************)
(* Spec: one crawl pass over the singers                                   *)
(***************************************************************************)

MaxPage    == 2    \* most pages the longest listing has
MaxWorkers == 2    \* largest max_workers a caller asks for

\* The one song the site lists on page p of singer u (ids differ between
\* singers and pages), as parse_songs_from_singer_page returns it.
SongOn(u, p) ==
    Rec(ToString(u) \o "-" \o ToString(p), "T", "S" \o ToString(u))

\* What get_page_content and the parser yield for a listing page: no payload
\* (None, every retry failed), a page without songs, or the page's song.
NoPayload == [ok |-> FALSE, songs |-> <<>>]
Payload(songs) == [ok |-> TRUE, songs |-> songs]
PageResults(u, p) == { NoPayload, Payload(<<>>), Payload(<<SongOn(u, p)>>) }

\* What get_page_content yields for .../singer/<id>/1.html in
\* find_max_page_for_singer: no payload, or a page whose pagination links
\* and pagination text name `top` as the largest page number (0: none).
NoListing == [ok |-> FALSE, top |-> 0]
Listing(top) == [ok |-> TRUE, top |-> top]

\* The site of this model: the listing of the first singer has up to MaxPage
\* pages, the listings of the others have one.
PagesOf(u) == IF u = 1 THEN MaxPage ELSE 1

Discoveries(u) == { NoListing } \cup { Listing(n) : n \in 0..PagesOf(u) }

\* A faulty variant of MaxPageOf: without payload there is no page to fetch.
MaxPageOf_NoneWithoutPayload(disc) ==
    IF disc.ok /\ disc.top > 1 THEN disc.top ELSE IF disc.ok THEN 1 ELSE 0

\* find_max_page_for_singer: `return 1` without payload, else max_page,
\* which starts at 1 and is raised to the largest page number found.
MaxPageOf(disc) ==
    IF ~disc.ok THEN 1 ELSE IF disc.top > 1 THEN disc.top ELSE 1

\* An entry of log: the call's purpose, the page asked for, whether a
\* payload came back, and the songs parsed from it.
Fetched(what, p, ok, songs) ==
    [what |-> what, page |-> p, ok |-> ok, songs |-> songs]

\* A faulty variant of AfterPage: a page without payload ends the loop.
AfterPage_StopAtFailure(ok, p, n) ==
    IF ~ok \/ p + 1 > n THEN "finish" ELSE "pages"

\* `for page_num in range(1, max_page + 1)`: after page p of n the loop
\* goes on to page p + 1 whether or not page p gave a payload (`if
\* html_content:` only guards the parsing), and ends after page n.
AfterPage(ok, p, n) == IF p + 1 > n THEN "finish" ELSE "pages"

Running == { u \in Units : pc[u] \in {"find_max_page", "pages", "finish"} }

\* A faulty variant of WorkerFree: a worker that has run a unit takes no
\* other one.
WorkerFree_NeverReleased ==
    Cardinality({ u \in Units : pc[u] # "queued" }) < max_workers

\* ThreadPoolExecutor(max_workers=self.max_workers): a queued unit is taken
\* when fewer than max_workers units are being run; a worker whose unit has
\* returned is free again.
WorkerFree == Cardinality(Running) < max_workers

\* A faulty variant of CrawlerWorkers: safe mode is not looked at.
CrawlerWorkers_AsRequested(safe, asked) == asked

\* SongCrawler.__init__: self.max_workers = 1 if self.safe_mode else
\* max_workers.
CrawlerWorkers(safe, asked) == IF safe THEN 1 ELSE asked

\* SongCrawler.crawl_singer_songs checks the cache first; the override
\* SafeCrawler.crawl_singer_songs has no such check.
ChecksCache == variant = "song"

\* A faulty variant of DispatchGoesOn: an exception in one unit ends the
\* dispatch of the units still queued.
DispatchGoesOn_UntilFailure == \A v \in Units : ~raised[v]

\* Every unit was submitted before the first result is looked at, an
\* exception in crawl_singer_songs is caught there, and the loops of
\* crawl_all_songs and crawl_all_songs_safe catch what a unit's handling
\* raises and go on: a queued unit is started whatever happened to the others.
DispatchGoesOn == TRUE

\* A worker takes the next queued unit (the executor's queue is first in,
\* first out; crawl_all_songs_safe takes the singers one by one) and enters
\* crawl_singer_songs: a recent singer returns [] at once, and so does one
\* for which _is_recent raises (the call is inside the try block).
StartUnit(u) ==
    /\ pc[u] = "queued"
    /\ \A v \in Units : v < u => pc[v] # "queued"
    /\ WorkerFree
    /\ DispatchGoesOn
    /\ freshAtStart' = [freshAtStart EXCEPT ![u] =
                           ~IsRecentRaises(u) /\ IsRecent(u)]
    /\ raised' = [raised EXCEPT ![u] = ChecksCache /\ IsRecentRaises(u)]
    /\ pc' = [pc EXCEPT ![u] =
                IF ChecksCache /\ (IsRecentRaises(u) \/ IsRecent(u))
                THEN "returned"
                ELSE "find_max_page"]
    /\ UNCHANGED <<variant, safe_mode, max_workers, output_file, max_page,
                   page_num, singer_songs, fetches, marked, fl,
                   existing, log, storeVars, cacheVars, netVars>>

\* find_max_page_for_singer: one fetch of page 1; max_page is 1 without
\* payload, else the largest page number the page names, at least 1.
FindMaxPage(u, disc) ==
    /\ pc[u] = "find_max_page"
    /\ fetches' = [fetches EXCEPT ![u] = @ + 1]
    /\ log' = [log EXCEPT ![u] =
                 Append(@, Fetched("extent", 1, disc.ok, <<>>))]
    /\ max_page' = [max_page EXCEPT ![u] = MaxPageOf(disc)]
    /\ page_num' = [page_num EXCEPT ![u] = 1]
    /\ pc' = [pc EXCEPT ![u] =
                IF MaxPageOf(disc) >= 1 THEN "pages" ELSE "finish"]
    /\ UNCHANGED <<variant, safe_mode, max_workers, output_file,
                   singer_songs, freshAtStart, marked, raised, fl, existing,
                   storeVars, cacheVars, netVars>>

\* One turn of `for page_num in range(1, max_page + 1)`: the page is
\* fetched, and its songs, if any, extend singer_songs.
FetchPage(u, res) ==
    /\ pc[u] = "pages"
    /\ fetches' = [fetches EXCEPT ![u] = @ + 1]
    /\ singer_songs' = [singer_songs EXCEPT ![u] =
                          IF res.ok THEN @ \o res.songs ELSE @]
    /\ log' = [log EXCEPT ![u] =
                 Append(@, Fetched("page", page_num[u], res.ok,
                                   IF res.ok THEN res.songs ELSE <<>>))]
    /\ page_num' = [page_num EXCEPT ![u] = @ + 1]
    /\ pc' = [pc EXCEPT ![u] = AfterPage(res.ok, page_num[u], max_page[u])]
    /\ UNCHANGED <<variant, safe_mode, max_workers, output_file, max_page,
                   freshAtStart, marked, raised, fl, existing, storeVars,
                   cacheVars, netVars>>

\* Whether the end of crawl_singer_songs calls _update_last_crawl:
\* SongCrawler's does, whatever singer_songs holds; SafeCrawler's does not.
UpdatesCache(u) == variant = "song"

\* After the loop: songs_data.extend(singer_songs) under the lock, the cache
\* update, and `return singer_songs`.
FinishUnit(u) ==
    /\ pc[u] = "finish"
    /\ songs_data' = songs_data \o singer_songs[u]
    /\ IF UpdatesCache(u)
       THEN /\ UpdateLastCrawl(u)
            /\ SaveCache(u)
            /\ marked' = [marked EXCEPT ![u] = TRUE]
       ELSE UNCHANGED <<cache, cache_file, marked>>
    /\ pc' = [pc EXCEPT ![u] = "returned"]
    /\ max_page' = [max_page EXCEPT ![u] = 0]
    /\ page_num' = [page_num EXCEPT ![u] = 0]
    /\ log' = [log EXCEPT ![u] = <<>>]
    /\ UNCHANGED <<variant, safe_mode, max_workers, output_file,
                   singer_songs, fetches, freshAtStart, raised, fl,
                   existing, file, wr, committed, lastMerge, now, cfg_days,
                   verdict, netVars>>

\* A faulty variant of RaiseUpdatesCache: the attempt is recorded as the
\* end of the call records it.
RaiseUpdatesCache_AsFinish(u) == UpdatesCache(u)

\* Whether the except branch of crawl_singer_songs calls
\* _update_last_crawl: it logs and returns [] ("失败不更新缓存时间").
RaiseUpdatesCache(u) == FALSE

\* A faulty variant of AfterRaise: the unit goes back to the queue.
AfterRaise_Requeue == "queued"

\* `except Exception as e: logger.error(...); return []`: the call is over.
AfterRaise == "returned"

\* An exception inside the try block (the parser, a malformed singer entry):
\* it is logged and the unit returns [].
UnitRaises(u) ==
    /\ pc[u] \in {"find_max_page", "pages"}
    /\ raised' = [raised EXCEPT ![u] = TRUE]
    /\ singer_songs' = [singer_songs EXCEPT ![u] = <<>>]
    /\ pc' = [pc EXCEPT ![u] = AfterRaise]
    /\ max_page' = [max_page EXCEPT ![u] = 0]
    /\ page_num' = [page_num EXCEPT ![u] = 0]
    /\ log' = [log EXCEPT ![u] = <<>>]
    /\ IF RaiseUpdatesCache(u)
       THEN /\ UpdateLastCrawl(u)
            /\ SaveCache(u)
            /\ marked' = [marked EXCEPT ![u] = TRUE]
       ELSE UNCHANGED <<cache, cache_file, marked>>
    /\ UNCHANGED <<variant, safe_mode, max_workers, output_file,
                   fetches, freshAtStart, fl, existing,
                   storeVars, now, cfg_days, verdict, netVars>>

\* A faulty variant of SchedulerFree: flushes started without waiting for
\* the one under way (as if the workers flushed their own results).
SchedulerFree_Reentrant == TRUE

\* The body of `for future in as_completed(...)` runs in the one thread that
\* called crawl_all_songs: it takes the next future only after the body,
\* flush included, has finished for the one before.
SchedulerFree == \A v \in Units : fl[v] # "reading"

\* The loop body for a completed unit: `if output_file and result` the flush
\* starts by reading the file; otherwise the unit is done with.
HandleCompleted(u) ==
    /\ variant = "song"
    /\ pc[u] = "returned"
    /\ fl[u] = "none"
    /\ SchedulerFree
    /\ IF output_file /\ singer_songs[u] # <<>>
       THEN /\ fl' = [fl EXCEPT ![u] = "reading"]
            /\ existing' = [existing EXCEPT ![u] = file]
       ELSE /\ fl' = [fl EXCEPT ![u] = "done"]
            /\ UNCHANGED existing
    /\ UNCHANGED <<variant, safe_mode, max_workers, output_file, pc,
                   max_page, page_num, singer_songs, fetches, freshAtStart,
                   marked, raised, log, storeVars, cacheVars, netVars>>

\* The flush writes what it read merged with the unit's result.
FlushWrite(u) ==
    /\ fl[u] = "reading"
    /\ file' = MergeOut(existing[u], singer_songs[u])
    /\ fl' = [fl EXCEPT ![u] = "done"]
    /\ existing' = [existing EXCEPT ![u] = Absent]
    /\ UNCHANGED <<variant, safe_mode, max_workers, output_file, pc,
                   max_page, page_num, singer_songs, fetches, freshAtStart,
                   marked, raised, log, songs_data, wr, committed,
                   lastMerge, cacheVars, netVars>>

\* The flush raises before it writes (open() or json.load fails):
\* _merge_songs_into_file catches the exception and logs it, the file is as
\* it was, and the scheduler takes the next completed unit.
FlushFails(u) ==
    /\ fl[u] = "reading"
    /\ fl' = [fl EXCEPT ![u] = "failed"]
    /\ existing' = [existing EXCEPT ![u] = Absent]
    /\ UNCHANGED <<variant, safe_mode, max_workers, output_file, pc,
                   max_page, page_num, singer_songs, fetches, freshAtStart,
                   marked, raised, log, storeVars, cacheVars, netVars>>

PassNext ==
    \/ \E u \in Units : StartUnit(u)
    \/ \E u \in Units : \E disc \in Discoveries(u) : FindMaxPage(u, disc)
    \/ \E u \in Units : \E res \in PageResults(u, page_num[u]) : FetchPage(u, res)
    \/ \E u \in Units : FinishUnit(u)
    \/ \E u \in Units : UnitRaises(u)
    \/ \E u \in Units : HandleCompleted(u)
    \/ \E u \in Units : FlushWrite(u)
    \/ \E u \in Units : FlushFails(u)

(***************************************************************************)
(* SpecPools: the crawl pool and the download pool                         *)
(***************************************************************************)

NumJobs == 2    \* songs handed to the download pool

Jobs == 1..NumJobs

\* _DEFAULTS["download_max_workers"].
DownloadMaxWorkers == 3

\* SongDownloader.__init__: self.max_workers = 1 if self.safe_mode else
\* (max_workers if isinstance(max_workers, int) and max_workers > 0 else
\* DOWNLOAD_MAX_WORKERS); asked = 0 stands for None and for any value that is
\* not a positive int.
DownloaderWorkers(safe, asked) ==
    IF safe THEN 1 ELSE IF asked > 0 THEN asked ELSE DownloadMaxWorkers

Downloading == { j \in Jobs : dpc[j] = "running" }

\* A worker of download_from_json's ThreadPoolExecutor takes the next
\* submitted song and enters download_song.
StartDownload(j) ==
    /\ dpc[j] = "queued"
    /\ \A k \in Jobs : k < j => dpc[k] # "queued"
    /\ Cardinality(Downloading) < dl_max_workers
    /\ dpc' = [dpc EXCEPT ![j] = "running"]
    /\ UNCHANGED <<mode, requested, dl_requested, dl_max_workers, storeVars,
                   cacheVars, passVars, markVars, proxyVars, fetchVars,
                   extVars>>

\* download_song returns True or False.
DownloadSong(j, ok) ==
    /\ dpc[j] = "running"
    /\ dpc' = [dpc EXCEPT ![j] = IF ok THEN "done" ELSE "failed"]
    /\ UNCHANGED <<mode, requested, dl_requested, dl_max_workers, storeVars,
                   cacheVars, passVars, markVars, proxyVars, fetchVars,
                   extVars>>

DownloadNext ==
    \/ \E j \in Jobs : StartDownload(j)
    \/ \E j \in Jobs, ok \in BOOLEAN : DownloadSong(j, ok)

PoolsNext == PassNext \/ DownloadNext

(***************************************************************************)
(* The proxy pool                                                          *)
(***************************************************************************)

MaxProxies == 2    \* longest list of candidates, longest working list

\* A proxy as the pool holds it, reduced to ip, port and speed.
Proxy(ip, port, speed) == [ip |-> ip, port |-> port, speed |-> speed]

\* Two endpoints at one address (they differ in speed) and one at another.
Endpoints ==
    { Proxy("10.0.0.1", 80, 0), Proxy("10.0.0.1", 80, 5),
      Proxy("10.0.0.2", 80, 0) }

\* None, where the code has no proxy.
NoProxy == Proxy("", 0, 0)

ProxyLists == SeqsUpTo(Endpoints, MaxProxies)

\* proxy_key = f"{proxy['ip']}:{proxy['port']}"
ProxyKey(p) == p.ip \o ":" \o ToString(p.port)

Members(w) == { w[i] : i \in DOMAIN w }

\* How often endpoint e occurs in the list w.
Count(w, e) == Cardinality({ i \in DOMAIN w : w[i] = e })

\* A faulty variant of GetRandomProxy: endpoints reported as failed may
\* still be handed out.
GetRandomProxy_Stale(w) ==
    LET stale == { e \in Endpoints : ProxyKey(e) \in failed_proxies }
    IN  IF w = <<>> /\ stale = {} THEN { NoProxy } ELSE Members(w) \cup stale

\* get_random_proxy: the values it may return on the working list w: None
\* when the list is empty, else random.choice(self.working_proxies).
GetRandomProxy(w) == IF w = <<>> THEN { NoProxy } ELSE Members(w)

\* A faulty variant of MarkProxyFailed: the list is filtered by equality of
\* the whole proxy, not of its address.
MarkProxyFailed_ByIdentity(w, p) ==
    LET Keep(q) == q # p
    IN  SelectSeq(w, Keep)

\* mark_proxy_failed: the working list without the proxies whose ip:port is
\* the failed one's.
MarkProxyFailed(w, p) ==
    LET Keep(q) == ProxyKey(q) # ProxyKey(p)
    IN  SelectSeq(w, Keep)

\* A faulty variant of ProxyDict: get_proxy_dict is applied without the
\* `if current_proxy` test.
ProxyDict_Unchecked(cur) == "http://" \o ProxyKey(cur)

\* proxy_dict: None (a direct request) without a proxy, else
\* get_proxy_dict(current_proxy), the proxy's URL.
ProxyDict(cur) == IF cur = NoProxy THEN "direct" ELSE "http://" \o ProxyKey(cur)

NoReport == [proxy |-> NoProxy, before |-> <<>>, after |-> <<>>]

(***************************************************************************)
(* SpecFetch: get_page_content calls over the proxy pool                   *)
(***************************************************************************)

NumFetches == 2    \* get_page_content calls under way at once
MaxRetries == 2    \* largest max_retries

Fetches == 1..NumFetches

\* Whether the attempt asks the pool: `if self.use_proxy and self.proxy_pool`
\* in SongCrawler; SafeCrawler and SingerCrawler have no pool.
AsksPool == crawler = "song" /\ use_proxy

\* The sleep at the top of the try block, before session.get: SafeCrawler
\* sleeps request_delay and more before every attempt, SingerCrawler sleeps
\* `if self.safe_mode`, SongCrawler has no such sleep.
PreRequestDelay(c, safe) ==
    IF c = "safe" THEN TRUE ELSE IF c = "singer" THEN safe ELSE FALSE

\* The top of `for attempt in range(max_retries)`: the proxy is chosen and
\* session.get is called.
PickProxy(f) ==
    /\ fpc[f] = "pick"
    /\ \E cur \in (IF AsksPool THEN GetRandomProxy(working_proxies)
                    ELSE { NoProxy }) :
          /\ current_proxy' = [current_proxy EXCEPT ![f] = cur]
          /\ route' = [route EXCEPT ![f] = ProxyDict(cur)]
    /\ pickedFrom' = [pickedFrom EXCEPT ![f] = working_proxies]
    /\ made' = [made EXCEPT ![f] = @ + 1]
    /\ slept' = [slept EXCEPT ![f] =
                   IF PreRequestDelay(crawler, safe_mode) THEN "pacing" ELSE @]
    /\ fpc' = [fpc EXCEPT ![f] = "request"]
    /\ lastReport' = NoReport
    /\ UNCHANGED <<crawler, use_proxy, max_retries, attempt, failedWith,
                   proxyVars, storeVars, cacheVars, passVars, markVars,
                   poolVars,
                   extVars>>

\* The request succeeds: `return response.text`.
AttemptSucceeds(f) ==
    /\ fpc[f] = "request"
    /\ fpc' = [fpc EXCEPT ![f] = "returned"]
    /\ slept' = [slept EXCEPT ![f] = "none"]
    /\ current_proxy' = [current_proxy EXCEPT ![f] = NoProxy]
    /\ route' = [route EXCEPT ![f] = "none"]
    /\ pickedFrom' = [pickedFrom EXCEPT ![f] = <<>>]
    /\ failedWith' = [failedWith EXCEPT ![f] = NoProxy]
    /\ lastReport' = NoReport
    /\ UNCHANGED <<crawler, use_proxy, max_retries, attempt, made,
                   proxyVars, storeVars, cacheVars, passVars, markVars,
                   poolVars,
                   extVars>>

\* A faulty variant of AfterFailure: the retry follows without the report.
AfterFailure_Unreported(cur) == "retry"

\* The except branch: `if current_proxy and self.proxy_pool` the proxy is
\* reported before the retry is considered.
AfterFailure(cur) == IF cur # NoProxy THEN "report" ELSE "retry"

\* The request fails (timeout, connection error, raise_for_status).
AttemptFails(f) ==
    /\ fpc[f] = "request"
    /\ failedWith' = [failedWith EXCEPT ![f] = current_proxy[f]]
    /\ fpc' = [fpc EXCEPT ![f] = AfterFailure(current_proxy[f])]
    /\ slept' = [slept EXCEPT ![f] = "none"]
    /\ route' = [route EXCEPT ![f] = "none"]
    /\ pickedFrom' = [pickedFrom EXCEPT ![f] = <<>>]
    /\ lastReport' = NoReport
    /\ UNCHANGED <<crawler, use_proxy, max_retries, attempt, current_proxy,
                   made, proxyVars, storeVars, cacheVars, passVars, markVars,
                   poolVars,
                   extVars>>

\* self.proxy_pool.mark_proxy_failed(current_proxy), under the pool's lock.
ReportFailure(f) ==
    /\ fpc[f] = "report"
    /\ failed_proxies' = failed_proxies \cup { ProxyKey(current_proxy[f]) }
    /\ working_proxies' = MarkProxyFailed(working_proxies, current_proxy[f])
    /\ lastReport' = [proxy |-> current_proxy[f], before |-> working_proxies,
                      after |-> working_proxies']
    /\ fpc' = [fpc EXCEPT ![f] = "retry"]
    /\ UNCHANGED <<crawler, use_proxy, max_retries, attempt, current_proxy,
                   route, made, pickedFrom, failedWith, slept, proxies, rpc, probe,
                   was_working, storeVars, cacheVars, passVars, markVars,
                   poolVars,
                   extVars>>

\* What the last failed attempt ends in: SongCrawler and SafeCrawler
\* `return None`, SingerCrawler re-raises the exception (`raise`).
Exhausted == IF crawler = "singer" THEN "raised" ELSE "exhausted"

\* `if attempt < max_retries - 1`: the backoff sleep and the next turn of
\* the loop; else the call ends.
Backoff(f) ==
    /\ fpc[f] = "retry"
    /\ IF attempt[f] < max_retries - 1
       THEN /\ attempt' = [attempt EXCEPT ![f] = @ + 1]
            /\ fpc' = [fpc EXCEPT ![f] = "pick"]
            /\ slept' = [slept EXCEPT ![f] = "backoff"]
            /\ UNCHANGED failedWith
       ELSE /\ fpc' = [fpc EXCEPT ![f] = Exhausted]
            /\ failedWith' = [failedWith EXCEPT ![f] = NoProxy]
            /\ UNCHANGED <<attempt, slept>>
    /\ current_proxy' = [current_proxy EXCEPT ![f] = NoProxy]
    /\ lastReport' = NoReport
    /\ UNCHANGED <<crawler, use_proxy, max_retries, route, made, pickedFrom,
                   proxyVars, storeVars, cacheVars, passVars, markVars,
                   poolVars,
                   extVars>>

FetchNext ==
    \/ \E f \in Fetches : PickProxy(f)
    \/ \E f \in Fetches : AttemptSucceeds(f)
    \/ \E f \in Fetches : AttemptFails(f)
    \/ \E f \in Fetches : ReportFailure(f)
    \/ \E f \in Fetches : Backoff(f)

(***************************************************************************)
(* SpecProxy: refresh_proxies                                              *)
(***************************************************************************)

\* What a probe (test_proxy's requests.get) ends in: status 200, another
\* status, or an exception.
ProbeOutcomes == { "200", "404", "exception" }

\* A faulty variant of ProbePassed: any response counts as success.
ProbePassed_AnyResponse(out) == out # "exception"

\* test_proxy: True on status 200, False on any other status and on an
\* exception.
ProbePassed(out) == out = "200"

\* list.sort(key=speed, reverse=True): a stable sort, fastest first.
RECURSIVE InsertBySpeed(_, _)
InsertBySpeed(w, p) ==
    IF w = <<>> THEN << p >>
    ELSE IF Head(w).speed >= p.speed
         THEN << Head(w) >> \o InsertBySpeed(Tail(w), p)
         ELSE << p >> \o w

RECURSIVE SortBySpeed(_)
SortBySpeed(w) ==
    IF w = <<>> THEN <<>>
    ELSE InsertBySpeed(SortBySpeed(SubSeq(w, 1, Len(w) - 1)), w[Len(w)])

\* Lists as get_free_proxies returns them: one proxy per address.
UniqueLists ==
    { w \in ProxyLists :
        \A i, j \in DOMAIN w : ProxyKey(w[i]) = ProxyKey(w[j]) => i = j }

\* refresh_proxies starts: the three collections are cleared.
RefreshClear ==
    /\ rpc = "idle"
    /\ was_working' = working_proxies
    /\ proxies' = <<>>
    /\ working_proxies' = <<>>
    /\ failed_proxies' = {}
    /\ rpc' = "load"
    /\ UNCHANGED <<probe, fetchVars, storeVars, cacheVars, passVars, markVars,
                   poolVars,
                   extVars>>

\* load_manual_proxies: the proxies of manual_proxies.txt are appended, and
\* it answers True (some line was read) or False (no file, no line, or an
\* exception, which may come after some proxies were appended).
LoadManualProxies(cands, loaded) ==
    /\ rpc = "load"
    /\ proxies' = cands
    /\ rpc' = IF loaded THEN "test" ELSE "free"
    /\ UNCHANGED <<working_proxies, failed_proxies, probe, was_working,
                   fetchVars, storeVars, cacheVars, passVars, markVars,
                   poolVars,
                   extVars>>

\* `if not manual_loaded`: self.proxies.extend(self.get_free_proxies()).
GetFreeProxies(new) ==
    /\ rpc = "free"
    /\ Len(proxies) + Len(new) <= MaxProxies
    /\ proxies' = proxies \o new
    /\ rpc' = "test"
    /\ UNCHANGED <<working_proxies, failed_proxies, probe, was_working,
                   fetchVars, storeVars, cacheVars, passVars, markVars,
                   poolVars,
                   extVars>>

\* `if self.proxies: self.test_all_proxies()`: every candidate is submitted
\* to test_proxy; without candidates the refresh is over.
StartTests ==
    /\ rpc = "test"
    /\ IF proxies = <<>>
       THEN rpc' = "done" /\ UNCHANGED probe
       ELSE rpc' = "probing" /\ probe' = [i \in DOMAIN proxies |-> "pending"]
    /\ UNCHANGED <<proxies, working_proxies, failed_proxies, was_working,
                   fetchVars, storeVars, cacheVars, passVars, markVars,
                   poolVars,
                   extVars>>

\* The probe of candidate i ends and as_completed hands it to the loop,
\* which appends the proxy to working_proxies when test_proxy answered True.
ProbeDone(i, out) ==
    /\ rpc = "probing"
    /\ i \in DOMAIN probe
    /\ probe[i] = "pending"
    /\ probe' = [probe EXCEPT ![i] = out]
    /\ working_proxies' =
          IF ProbePassed(out) THEN Append(working_proxies, proxies[i])
          ELSE working_proxies
    /\ UNCHANGED <<proxies, failed_proxies, rpc, was_working, fetchVars,
                   storeVars, cacheVars, passVars, markVars, poolVars,
                   extVars>>

\* Every probe has ended: working_proxies is sorted by speed.
SortWorking ==
    /\ rpc = "probing"
    /\ \A i \in DOMAIN probe : probe[i] # "pending"
    /\ working_proxies' = SortBySpeed(working_proxies)
    /\ rpc' = "done"
    /\ UNCHANGED <<proxies, failed_proxies, probe, was_working, fetchVars,
                   storeVars, cacheVars, passVars, markVars, poolVars,
                   extVars>>

ProxyNext ==
    \/ RefreshClear
    \/ \E cands \in ProxyLists, loaded \in BOOLEAN :
          LoadManualProxies(cands, loaded)
    \/ \E new \in UniqueLists : GetFreeProxies(new)
    \/ StartTests
    \/ \E i \in 1..(MaxProxies + 1), out \in ProbeOutcomes : ProbeDone(i, out)
    \/ SortWorking

(***************************************************************************)
(* SpecStatus: get_status over the operations of the pool                  *)
(***************************************************************************)

\* len(working) / len(proxies) * 100, in whole percent: the division raises
\* ZeroDivisionError on an empty candidate list.
Percent(w, t) ==
    IF t = 0 THEN [fault |-> TRUE, value |-> 0]
    ELSE [fault |-> FALSE, value |-> (w * 100) \div t]

\* A faulty variant of SuccessRate: the division without its guard.
SuccessRate_Unguarded(w, t) == Percent(w, t)

\* 'success_rate': ... * 100 if self.proxies else 0
SuccessRate(w, t) ==
    IF t # 0 THEN Percent(w, t) ELSE [fault |-> FALSE, value |-> 0]

\* No get_status call since the pool was last changed.
NoStatus == [called |-> FALSE]

\* The dict get_status returns, or the exception it ends in.
StatusOf(cands, working, failed) ==
    LET rate == SuccessRate(Len(working), Len(cands))
    IN  IF rate.fault
        THEN [called |-> TRUE, raised |-> TRUE]
        ELSE [called |-> TRUE, raised |-> FALSE,
              total_proxies |-> Len(cands),
              working_proxies |-> Len(working),
              failed_proxies |-> Cardinality(failed),
              success_rate |-> rate.value]

\* get_status(): the pool is read and left as it is.
GetStatus ==
    /\ status' = StatusOf(proxies, working_proxies, failed_proxies)
    /\ UNCHANGED <<proxyVars, fetchVars, storeVars, cacheVars, passVars,
                   markVars, poolVars, dlVars, acctVars, singerVars>>

\* The same proxies in some order.
IsPermutation(a, b) ==
    /\ Len(a) = Len(b)
    /\ \A e \in Endpoints : Count(a, e) = Count(b, e)

\* The candidates at the positions of `passed`, in the order of the list.
RECURSIVE Passing(_, _, _)
Passing(cands, passed, i) ==
    IF i > Len(cands) THEN <<>>
    ELSE (IF i \in passed THEN << cands[i] >> ELSE <<>>)
         \o Passing(cands, passed, i + 1)

\* What refresh_proxies() may leave: the candidates loaded, and those whose
\* probe passed, appended to working_proxies in the order their probes end
\* and then sorted by speed.
RefreshResults ==
    { [proxies |-> x[1], working |-> SortBySpeed(x[2])] :
        x \in { y \in ProxyLists \X ProxyLists :
                  \E passed \in SUBSET (1..Len(y[1])) :
                     IsPermutation(y[2], Passing(y[1], passed, 1)) } }

\* refresh_proxies() as one operation: the collections are cleared and
\* filled again.
RefreshProxies(r) ==
    /\ proxies' = r.proxies
    /\ working_proxies' = r.working
    /\ failed_proxies' = {}
    /\ status' = NoStatus
    /\ UNCHANGED <<rpc, probe, was_working, fetchVars, storeVars, cacheVars,
                   passVars, markVars, poolVars, dlVars, acctVars, singerVars>>

\* load_proxies: the proxies of working_proxies.json extend
\* working_proxies; no probe is made and self.proxies is left alone.
LoadProxies(loaded) ==
    /\ Len(working_proxies) + Len(loaded) <= MaxProxies
    /\ working_proxies' = working_proxies \o loaded
    /\ status' = NoStatus
    /\ UNCHANGED <<proxies, failed_proxies, rpc, probe, was_working,
                   fetchVars, storeVars, cacheVars, passVars, markVars,
                   poolVars, dlVars, acctVars, singerVars>>

\* Lists as add_manual_proxies builds them from 'ip:port' strings: speed 0.
ManualLists ==
    { w \in ProxyLists : w # <<>> /\ \A i \in DOMAIN w : w[i].speed = 0 }

\* add_manual_proxies(proxy_list): the proxies are appended to self.proxies.
AddManualProxies(added) ==
    /\ Len(proxies) + Len(added) <= MaxProxies
    /\ proxies' = proxies \o added
    /\ status' = NoStatus
    /\ UNCHANGED <<working_proxies, failed_proxies, rpc, probe, was_working,
                   fetchVars, storeVars, cacheVars, passVars, markVars,
                   poolVars, dlVars, acctVars, singerVars>>

\* get_random_proxy() and, the request through it having failed,
\* mark_proxy_failed(proxy).
PickAndReport(p) ==
    /\ p \in GetRandomProxy(working_proxies)
    /\ p # NoProxy
    /\ failed_proxies' = failed_proxies \cup { ProxyKey(p) }
    /\ working_proxies' = MarkProxyFailed(working_proxies, p)
    /\ status' = NoStatus
    /\ UNCHANGED <<proxies, rpc, probe, was_working, fetchVars, storeVars,
                   cacheVars, passVars, markVars, poolVars, dlVars, acctVars, singerVars>>

StatusNext ==
    \/ GetStatus
    \/ \E r \in RefreshResults : RefreshProxies(r)
    \/ \E loaded \in ProxyLists \ { <<>> } : LoadProxies(loaded)
    \/ \E added \in ManualLists : AddManualProxies(added)
    \/ \E p \in Endpoints : PickAndReport(p)

(***************************************************************************)
(* SpecSingers: the dedup pass of SingerCrawler.crawl_all_singers          *)
(***************************************************************************)

MaxSingers == 3    \* most candidates the pages of the listing bring

\* singer_info of parse_singers_from_page (url and base_url follow from the
\* id): the link text is the name, and two links of one singer may carry
\* different texts.
SingerIds == {"1", "2"}
SingerNames == {"a", "ab", "ba"}
SingerInfos == [id : SingerIds, name : SingerNames]

\* A faulty variant of NameLonger: an equally long name replaces as well.
NameLonger_OrEqual(singer, kept) == Len(singer.name) >= Len(kept.name)

\* `len(singer['name']) > len(unique_singers[singer_id]['name'])`.
NameLonger(singer, kept) == Len(singer.name) > Len(kept.name)

\* One turn of `for singer in self.singers_data`: a new id is added at the
\* end of the dict, a known id keeps its place and takes the candidate only
\* if its name is longer.
UniquePut(d, singer) ==
    IF \A i \in DOMAIN d : d[i].id # singer.id
    THEN Append(d, singer)
    ELSE [i \in DOMAIN d |->
            IF d[i].id = singer.id /\ NameLonger(singer, d[i])
            THEN singer ELSE d[i]]

\* The crawl of the pages has ended (or has raised and been caught):
\* `unique_singers = {}` and the loop starts.
DedupStart ==
    /\ dedup_i = -1
    /\ collected = <<>>
    /\ singers_data # <<>>
    /\ unique_singers' = <<>>
    /\ dedup_i' = 0
    /\ collected' = singers_data
    /\ UNCHANGED <<singers_data, statVars, dlVars, acctVars, markVars, poolVars,
                   proxyVars, fetchVars, storeVars, cacheVars, passVars>>

DedupTurn ==
    /\ dedup_i >= 0
    /\ dedup_i < Len(singers_data)
    /\ unique_singers' = UniquePut(unique_singers, singers_data[dedup_i + 1])
    /\ dedup_i' = dedup_i + 1
    /\ UNCHANGED <<singers_data, collected, statVars, dlVars, acctVars, markVars,
                   poolVars, proxyVars, fetchVars, storeVars, cacheVars,
                   passVars>>

\* `self.singers_data = list(unique_singers.values())`.
DedupEnd ==
    /\ dedup_i >= 0
    /\ dedup_i = Len(singers_data)
    /\ singers_data' = unique_singers
    /\ dedup_i' = -1
    /\ UNCHANGED <<unique_singers, collected, statVars, dlVars, acctVars, markVars,
                   poolVars, proxyVars, fetchVars, storeVars, cacheVars,
                   passVars>>

SingersNext ==
    \/ DedupStart
    \/ DedupTurn
    \/ DedupEnd

(***************************************************************************)
(* SpecDownload: SongDownloader's batch download                           *)
(***************************************************************************)

NumSongs == 1    \* songs of the list handed to the downloader

Songs == 1..NumSongs

\* The songs of the list the downloader is given.
Listed == DOMAIN spc

\* The songs whose requests and writes the model lets fail: the first of the
\* list. The requests for the songs after it succeed.
FailingSongs == {1}

\* download_song(song_info, max_retries=3).
DownloadRetries == 3

\* _DEFAULTS["downloaded_cache_days"].
DownloadedCacheDays == 180

\* The cache test of is_song_already_downloaded: an entry whose ts parses
\* and lies less than downloaded_cache_days back.
IsCached(t) ==
    /\ downloaded_index[t].kind = "ts"
    /\ now - downloaded_index[t].ts < DownloadedCacheDays

\* A faulty variant of Found: only the extension download_song would write
\* is looked for.
Found_TargetOnly(cached, tgt, oth) ==
    IF cached THEN "cached" ELSE IF tgt # "none" THEN "target" ELSE "missing"

\* is_song_already_downloaded: True on a cache entry within its TTL, else
\* True on the first of stem.mp3, .wav, .flac, .m4a, .aac that exists, else
\* False ("missing").
Found(cached, tgt, oth) ==
    IF cached THEN "cached"
    ELSE IF tgt # "none" THEN "target"
    ELSE IF oth THEN "other" ELSE "missing"

\* downloaded_cache.json: the text of a finished dump (the index it was made
\* of), the text of a dump that broke off, an emptied file (open(..., 'w')
\* has truncated it), or bytes json.load raises on (Corrupt).
IndexText(idx) == [kind |-> "ok", songs |-> idx]
PartialText == [kind |-> "partial"]
Emptied == [kind |-> "empty"]
NoBuf == [kind |-> "none"]

EntryCount(idx) == Cardinality({ t \in DOMAIN idx : idx[t] # NoEntry })

\* _load_downloaded_index: the dict of the file, {"songs": {}} when the file
\* is missing or json.load raises.
LoadIndex(f) == IF f.kind = "ok" THEN f.songs ELSE [t \in Listed |-> NoEntry]

\* What the file holds once a handle opened with 'w' is closed and its text
\* is written from offset 0: that text, unless the file holds a longer text,
\* written through another handle in the meantime, whose tail then stays
\* behind it. Of bytes that are no JSON the length is not known.
AfterClose(f, buf) ==
    IF buf.kind = "partial" THEN { Corrupt }
    ELSE IF f.kind = "ok"
    THEN IF EntryCount(f.songs) > EntryCount(buf.songs)
         THEN { Corrupt } ELSE { buf }
    ELSE IF f.kind = "corrupt" THEN { buf, Corrupt }
    ELSE { buf }

\* A faulty variant of AheadInLimit: the limit cuts the list as it was given.
AheadInLimit_AllListed(t) == Cardinality({ v \in Listed : v < t })

\* The songs before t in to_download.
AheadInLimit(t) ==
    Cardinality({ v \in Listed : v < t /\ spc[v] = "submitted" })

\* `if limit: to_download = to_download[:limit]`: None and 0 do not limit.
WithinLimit(t) == limit = 0 \/ AheadInLimit(t) < limit

\* download_song is under way for these songs.
InFlight == {"check", "get", "stream", "verify", "save", "dump", "dumping",
             "close"}
RunningSongs == { v \in Listed : spc[v] \in InFlight }

\* `[s for s in songs if not self.is_song_already_downloaded(s)]`, in list
\* order and before anything is submitted: a song found on disk is entered
\* in the index (_mark_downloaded, which dumps the index to its file), and of
\* the songs not found those within the limit are submitted.
Filter(t) ==
    /\ spc[t] = "listed"
    /\ \A v \in Listed : v < t => spc[v] # "listed"
    /\ LET found == Found(IsCached(t), target[t], other_ext[t])
       IN  /\ seen' = [seen EXCEPT ![t] = found]
           /\ IF found \in {"target", "other"}
              THEN /\ downloaded_index' =
                        [downloaded_index EXCEPT ![t] = Stamp(now)]
                   /\ index_file' = IndexText(downloaded_index')
              ELSE UNCHANGED <<downloaded_index, index_file>>
           /\ spc' = [spc EXCEPT ![t] =
                        IF found # "missing" THEN "skipped"
                        ELSE IF WithinLimit(t) THEN "submitted" ELSE "left"]
    /\ UNCHANGED <<overwrite_existing, target, other_ext, dl_attempt, requests,
                   callVars, countVars, idx_buf, started, nonDlVars>>

\* A worker of the ThreadPoolExecutor (max_workers threads, the submitted
\* songs in their order) starts download_song: get_file_extension_from_url
\* finds no audio extension in .../plug/down.php and sends a HEAD request.
HeadRequest(t) ==
    /\ spc[t] = "submitted"
    /\ \A v \in Listed : spc[v] # "listed"
    /\ \A v \in Listed : v < t => spc[v] # "submitted"
    /\ Cardinality(RunningSongs) < dl_max_workers
    /\ started' = [started EXCEPT ![t] = @ + 1]
    /\ requests' = [requests EXCEPT ![t] = @ + 1]
    /\ spc' = [spc EXCEPT ![t] = "check"]
    /\ UNCHANGED <<overwrite_existing, downloaded_index, target, other_ext, dl_attempt,
                   seen, callVars, countVars, idxVars,
                   nonDlVars>>

\* `if filepath.exists()`: with overwrite_existing the file is unlinked (a
\* failing unlink counts a failure and ends the call with False), without it
\* the call counts a download and returns True at once.
ExistsCheck(t, unlinked) ==
    /\ spc[t] = "check"
    /\ IF target[t] = "none"
       THEN /\ spc' = [spc EXCEPT ![t] = "get"]
            /\ UNCHANGED <<target, countVars>>
       ELSE IF ~overwrite_existing
       THEN /\ spc' = [spc EXCEPT ![t] = "done"]
            /\ downloaded_count' = downloaded_count + 1
            /\ UNCHANGED <<target, failed_count>>
       ELSE IF unlinked
       THEN /\ spc' = [spc EXCEPT ![t] = "get"]
            /\ target' = [target EXCEPT ![t] = "none"]
            /\ UNCHANGED countVars
       ELSE /\ spc' = [spc EXCEPT ![t] = "failed"]
            /\ failed_count' = failed_count + 1
            /\ UNCHANGED <<target, downloaded_count>>
    /\ UNCHANGED <<overwrite_existing, downloaded_index, other_ext, dl_attempt,
                   requests, seen, callVars, idxVars, started,
                   nonDlVars>>

\* What follows a RequestException: `if attempt < max_retries - 1` the sleep
\* and the next attempt, else failed_count += 1 and `return False`.
AfterRequestException(t) ==
    IF dl_attempt[t] < DownloadRetries - 1
    THEN /\ dl_attempt' = [dl_attempt EXCEPT ![t] = @ + 1]
         /\ spc' = [spc EXCEPT ![t] = "get"]
         /\ UNCHANGED countVars
    ELSE /\ spc' = [spc EXCEPT ![t] = "failed"]
         /\ failed_count' = failed_count + 1
         /\ UNCHANGED <<dl_attempt, downloaded_count>>

\* session.get or raise_for_status raises a RequestException: nothing was
\* opened in this attempt.
GetFails(t) ==
    /\ spc[t] = "get"
    /\ t \in FailingSongs
    /\ requests' = [requests EXCEPT ![t] = @ + 1]
    /\ AfterRequestException(t)
    /\ UNCHANGED <<overwrite_existing, downloaded_index, target, other_ext, seen,
                   callVars, idxVars, started, nonDlVars>>

\* The response arrives (stream=True) and `open(filepath, 'wb')` creates or
\* empties the file at the final path.
GetResponds(t) ==
    /\ spc[t] = "get"
    /\ requests' = [requests EXCEPT ![t] = @ + 1]
    /\ target' = [target EXCEPT ![t] = "empty"]
    /\ spc' = [spc EXCEPT ![t] = "stream"]
    /\ UNCHANGED <<overwrite_existing, downloaded_index, other_ext, dl_attempt, seen,
                   acctVars, nonDlVars>>

\* f.write(chunk) for a chunk of the payload that is not the last.
WriteChunk(t) ==
    /\ spc[t] = "stream"
    /\ target[t] = "empty"
    /\ target' = [target EXCEPT ![t] = "partial"]
    /\ UNCHANGED <<overwrite_existing, downloaded_index, other_ext, spc, dl_attempt,
                   requests, seen, acctVars,
                   nonDlVars>>

\* iter_content ends: after its last chunk the file holds the payload; a
\* body without bytes leaves the file empty.
StreamEnds(t) ==
    /\ spc[t] = "stream"
    /\ target[t] = "empty" => t \in FailingSongs
    /\ target' = [target EXCEPT ![t] =
                    IF target[t] = "partial" THEN "complete" ELSE "empty"]
    /\ spc' = [spc EXCEPT ![t] = "verify"]
    /\ UNCHANGED <<overwrite_existing, downloaded_index, other_ext, dl_attempt,
                   requests, seen, acctVars,
                   nonDlVars>>

\* iter_content raises a RequestException (ChunkedEncodingError,
\* ConnectionError): the `with open` block closes the file with what was
\* written, and the branch for RequestException does not unlink it.
StreamBreaks(t) ==
    /\ spc[t] = "stream"
    /\ t \in FailingSongs
    /\ AfterRequestException(t)
    /\ UNCHANGED <<overwrite_existing, downloaded_index, target, other_ext, requests,
                   seen, callVars, idxVars, started,
                   nonDlVars>>

\* Another exception while streaming (f.write raises OSError): `if
\* filepath.exists(): filepath.unlink()`, failed_count += 1 and `return False`.
StreamRaises(t) ==
    /\ spc[t] = "stream"
    /\ t \in FailingSongs
    /\ target' = [target EXCEPT ![t] = "none"]
    /\ spc' = [spc EXCEPT ![t] = "failed"]
    /\ failed_count' = failed_count + 1
    /\ UNCHANGED <<overwrite_existing, downloaded_index, other_ext, dl_attempt,
                   requests, seen, callVars, downloaded_count, idxVars, started,
                   nonDlVars>>

\* `if filepath.stat().st_size > 0`: downloaded_count += 1 under the lock,
\* and _mark_downloaded enters the song in the index, a dict that a dump
\* another worker has under way is iterating: a new key makes that dump
\* raise RuntimeError, which _save_downloaded_index swallows. Else the file
\* is unlinked and the loop goes to its next attempt, or past its end to the
\* `return False` at the end of download_song, where nothing is counted.
Verify(t) ==
    /\ spc[t] = "verify"
    /\ IF target[t] = "complete"
       THEN /\ downloaded_count' = downloaded_count + 1
            /\ downloaded_index' = [downloaded_index EXCEPT ![t] = Stamp(now)]
            /\ idx_buf' = [v \in Listed |->
                              IF spc[v] = "dumping" /\ downloaded_index[t] = NoEntry
                              THEN PartialText ELSE idx_buf[v]]
            /\ spc' = [spc EXCEPT ![t] = "save"]
            /\ UNCHANGED <<target, dl_attempt>>
       ELSE /\ target' = [target EXCEPT ![t] = "none"]
            /\ IF dl_attempt[t] + 1 < DownloadRetries
               THEN /\ dl_attempt' = [dl_attempt EXCEPT ![t] = @ + 1]
                    /\ spc' = [spc EXCEPT ![t] = "get"]
               ELSE /\ spc' = [spc EXCEPT ![t] = "failed"]
                    /\ UNCHANGED dl_attempt
            /\ UNCHANGED <<downloaded_index, downloaded_count, idx_buf>>
    /\ UNCHANGED <<overwrite_existing, other_ext, requests, seen,
                   callVars, failed_count, index_file, started, nonDlVars>>

\* _save_downloaded_index, called by _mark_downloaded in the worker, with no
\* lock held: `open(self.downloaded_index_file, 'w')` empties the file.
IndexOpen(t) ==
    /\ spc[t] = "save"
    /\ index_file' = Emptied
    /\ spc' = [spc EXCEPT ![t] = "dump"]
    /\ UNCHANGED <<overwrite_existing, downloaded_index, target, other_ext,
                   dl_attempt, requests, seen, callVars, countVars, idx_buf,
                   started, nonDlVars>>

\* json.dump(self.downloaded_index, f) starts to iterate the dict; what it
\* writes stays in the buffer of the handle.
IndexDumpStart(t) ==
    /\ spc[t] = "dump"
    /\ idx_buf' = [idx_buf EXCEPT ![t] = IndexText(downloaded_index)]
    /\ spc' = [spc EXCEPT ![t] = "dumping"]
    /\ UNCHANGED <<overwrite_existing, downloaded_index, target, other_ext,
                   dl_attempt, requests, seen, callVars, countVars, index_file,
                   started, nonDlVars>>

\* json.dump ends, having written the dict or having raised.
IndexDumpEnd(t) ==
    /\ spc[t] = "dumping"
    /\ spc' = [spc EXCEPT ![t] = "close"]
    /\ UNCHANGED <<overwrite_existing, downloaded_index, target, other_ext,
                   dl_attempt, requests, seen, acctVars, nonDlVars>>

\* The `with` block closes the handle, the buffer goes to the file, and
\* download_song returns True.
IndexClose(t) ==
    /\ spc[t] = "close"
    /\ index_file' \in AfterClose(index_file, idx_buf[t])
    /\ idx_buf' = [idx_buf EXCEPT ![t] = NoBuf]
    /\ spc' = [spc EXCEPT ![t] = "done"]
    /\ UNCHANGED <<overwrite_existing, downloaded_index, target, other_ext,
                   dl_attempt, requests, seen, callVars, countVars, started,
                   nonDlVars>>

\* The calls of download_song have all returned, or none was made.
AtRest == \A t \in Listed : spc[t] \in {"skipped", "left", "done", "failed"}

\* InteractiveCrawler.download_from_file, by singer: the branch calls
\* download_songs_list(pending_songs, limit=limit), and the statement after
\* the branches calls download_songs_list(final_songs, limit=limit) with the
\* same downloader. pending_songs are the final_songs that
\* is_song_already_downloaded did not find, which the filter of the first
\* call finds again.
NextCall ==
    /\ ui_mode = "singer"
    /\ calls = 1
    /\ AtRest
    /\ calls' = 2
    /\ spc' = [t \in Listed |-> "listed"]
    /\ dl_attempt' = [t \in Listed |-> 0]
    /\ seen' = [t \in Listed |-> "unseen"]
    /\ UNCHANGED <<overwrite_existing, downloaded_index, target, other_ext,
                   requests, limit, ui_mode, countVars, idxVars, started,
                   nonDlVars>>

\* The process ends, killed at any point or at the end of the batch, and a
\* later run is given the same list: the files and downloaded_cache.json are
\* as the run before left them, and SongDownloader.__init__ loads the index
\* and sets the counters to 0.
LaterRun ==
    /\ \E t \in Listed : spc[t] # "listed"
    /\ spc' = [t \in Listed |-> "listed"]
    /\ dl_attempt' = [t \in Listed |-> 0]
    /\ requests' = [t \in Listed |-> 0]
    /\ seen' = [t \in Listed |-> "unseen"]
    /\ downloaded_index' = LoadIndex(index_file)
    /\ idx_buf' = [t \in Listed |-> NoBuf]
    /\ downloaded_count' = 0
    /\ failed_count' = 0
    /\ started' = [t \in Listed |-> 0]
    /\ calls' = 1
    /\ UNCHANGED <<overwrite_existing, target, other_ext, index_file, limit,
                   ui_mode, nonDlVars>>

\* The steps of one download_songs_list (or download_from_json) call.
DownloadSteps ==
    \/ \E t \in Listed : Filter(t)
    \/ \E t \in Listed : HeadRequest(t)
    \/ \E t \in Listed, unlinked \in BOOLEAN : ExistsCheck(t, unlinked)
    \/ \E t \in Listed : GetFails(t)
    \/ \E t \in Listed : GetResponds(t)
    \/ \E t \in Listed : WriteChunk(t)
    \/ \E t \in Listed : StreamEnds(t)
    \/ \E t \in Listed : StreamBreaks(t)
    \/ \E t \in Listed : StreamRaises(t)
    \/ \E t \in Listed : Verify(t)
    \/ \E t \in Listed : IndexOpen(t)
    \/ \E t \in Listed : IndexDumpStart(t)
    \/ \E t \in Listed : IndexDumpEnd(t)
    \/ \E t \in Listed : IndexClose(t)

DownloadBatchNext ==
    \/ DownloadSteps
    \/ LaterRun

\* One download action of the interactive interface.
ActionNext ==
    \/ DownloadSteps
    \/ NextCall

(***************************************************************************)
(* Initial states and specifications                                       *)
(***************************************************************************)

\* The store before any write of this model: no dataset file.
StoreIdle ==
    /\ file = Absent
    /\ songs_data = <<>>
    /\ wr = NoWrite
    /\ committed = {}
    /\ lastMerge = NoMerge

CacheIdle ==
    /\ cache = EmptyCache
    /\ cache_file = CacheAbsent
    /\ now = Day0
    /\ cfg_days = Digits(DefaultCacheDays)
    /\ verdict = NoVerdict

\* No unit started.
PassQueued ==
    /\ pc = [u \in Units |-> "queued"]
    /\ max_page = [u \in Units |-> 0]
    /\ page_num = [u \in Units |-> 0]
    /\ singer_songs = [u \in Units |-> <<>>]
    /\ fetches = [u \in Units |-> 0]
    /\ freshAtStart = [u \in Units |-> FALSE]
    /\ marked = [u \in Units |-> FALSE]
    /\ raised = [u \in Units |-> FALSE]
    /\ fl = [u \in Units |-> "none"]
    /\ existing = [u \in Units |-> Absent]
    /\ log = [u \in Units |-> <<>>]

PassIdle ==
    /\ variant = "song"
    /\ safe_mode = FALSE
    /\ max_workers = 1
    /\ output_file = FALSE
    /\ PassQueued

\* No _update_last_crawl call under way.
MarkIdle ==
    /\ cache_lock = 0
    /\ mk = [u \in Units |-> "idle"]
    /\ stamped = [u \in Units |-> -1]

\* No downloader.
DownloadIdle ==
    /\ dl_requested = 0
    /\ dl_max_workers = 1
    /\ dpc = [j \in Jobs |-> "absent"]

PoolIdle ==
    /\ mode = "songs"
    /\ requested = 1
    /\ DownloadIdle

\* ProxyPool.__init__: empty collections.
ProxyIdle ==
    /\ proxies = <<>>
    /\ working_proxies = <<>>
    /\ failed_proxies = {}
    /\ rpc = "idle"
    /\ probe = <<>>
    /\ was_working = <<>>

\* No get_page_content call started.
FetchQueued(at) ==
    /\ fpc = [f \in Fetches |-> at]
    /\ attempt = [f \in Fetches |-> 0]
    /\ current_proxy = [f \in Fetches |-> NoProxy]
    /\ route = [f \in Fetches |-> "none"]
    /\ made = [f \in Fetches |-> 0]
    /\ pickedFrom = [f \in Fetches |-> <<>>]
    /\ failedWith = [f \in Fetches |-> NoProxy]
    /\ lastReport = NoReport
    /\ slept = [f \in Fetches |-> "none"]

FetchIdle ==
    /\ crawler = "song"
    /\ use_proxy = FALSE
    /\ max_retries = 1
    /\ FetchQueued("idle")

\* get_status was not called.
StatusIdle == status = NoStatus

\* No downloader batch.
BatchIdle ==
    /\ overwrite_existing = FALSE
    /\ downloaded_index = [t \in Songs |-> NoEntry]
    /\ target = [t \in Songs |-> "none"]
    /\ other_ext = [t \in Songs |-> FALSE]
    /\ spc = [t \in Songs |-> "absent"]
    /\ dl_attempt = [t \in Songs |-> 0]
    /\ requests = [t \in Songs |-> 0]
    /\ seen = [t \in Songs |-> "unseen"]
    /\ limit = 0
    /\ ui_mode = "batch"
    /\ calls = 0
    /\ downloaded_count = 0
    /\ failed_count = 0
    /\ index_file = [kind |-> "absent"]
    /\ idx_buf = [t \in Songs |-> NoBuf]
    /\ started = [t \in Songs |-> 0]

\* No singer crawl.
SingersIdle ==
    /\ singers_data = <<>>
    /\ unique_singers = <<>>
    /\ dedup_i = -1
    /\ collected = <<>>

ExtIdle == StatusIdle /\ BatchIdle /\ SingersIdle

NetIdle == MarkIdle /\ PoolIdle /\ ProxyIdle /\ FetchIdle /\ ExtIdle

\* SpecStore starts without a dataset file.
StoreInit == StoreIdle /\ CacheIdle /\ PassIdle /\ NetIdle

SpecStore == StoreInit /\ [][StoreNext]_vars

\* SpecMerge starts from any dataset file (none, or one holding any list of
\* records, as save_to_file, a merge or the manager's fallback wrote it) and
\* any list of new records.
MergeInit ==
    /\ file \in { Absent } \cup { Counted(d) : d \in RecordLists }
                          \cup { FallbackOut(d) : d \in RecordLists }
    /\ songs_data \in RecordLists
    /\ wr = NoWrite
    /\ committed = Keys(ExistingSongs(file))
    /\ lastMerge = NoMerge
    /\ CacheIdle
    /\ PassIdle
    /\ NetIdle

SpecMerge == MergeInit /\ [][MergeNext]_vars

\* SpecCache starts from any cache file (none, an unreadable one, one that
\* holds no JSON object, or an object with, per singer, no entry, one that
\* does not parse, a success 10, 27, 28 or 40 days ago, or a timestamp with
\* a UTC offset) loaded by SongCrawler.__init__, and any configured TTL.
CacheInit ==
    /\ cache_file \in
          { CacheAbsent, CacheUnreadable, CacheNotObject } \cup
          { CacheObject(m) :
              m \in [Units -> { NoEntry, BadEntry, AwareStamp(Day0 - 10) } \cup
                       { Stamp(Day0 - age) : age \in {10, 27, 28, 40} }] }
    /\ cache = LoadCache(cache_file)
    /\ now = Day0
    /\ cfg_days \in { Digits(DefaultCacheDays), Digits(7), NoDigits }
    /\ verdict = NoVerdict
    /\ StoreIdle
    /\ PassIdle
    /\ NetIdle

SpecCache == CacheInit /\ [][CacheNext]_vars

\* SpecMark starts with every singer's unit about to call
\* _update_last_crawl, on a cache loaded from its file (none, or one that
\* holds, per singer, no entry or a success 40 days ago).
MarkInit ==
    /\ cache_file \in
          { CacheAbsent } \cup
          { CacheObject(m) : m \in [Units -> { NoEntry, Stamp(Day0 - 40) }] }
    /\ cache = LoadCache(cache_file)
    /\ now = Day0
    /\ cfg_days = Digits(DefaultCacheDays)
    /\ verdict = NoVerdict
    /\ cache_lock = 0
    /\ mk = [u \in Units |-> "call"]
    /\ stamped = [u \in Units |-> -1]
    /\ StoreIdle
    /\ PassIdle
    /\ PoolIdle
    /\ ProxyIdle
    /\ FetchIdle
    /\ ExtIdle

SpecMark == MarkInit /\ [][MarkNext]_vars

\* SpecFetch starts with NumFetches get_page_content calls at the top of
\* their loops: those of a SongCrawler with or without a pool, whose working
\* list was loaded from working_proxies.json (load_proxies), of a
\* SafeCrawler or of a SingerCrawler.
FetchInit ==
    /\ crawler \in {"song", "safe", "singer"}
    /\ use_proxy \in BOOLEAN
    /\ crawler # "song" => ~use_proxy
    /\ max_retries \in 1..MaxRetries
    /\ FetchQueued("pick")
    /\ proxies = <<>>
    /\ working_proxies \in (IF AsksPool THEN ProxyLists ELSE { <<>> })
    /\ failed_proxies = {}
    /\ rpc = "idle"
    /\ probe = <<>>
    /\ was_working = <<>>
    /\ StoreIdle
    /\ CacheIdle
    /\ PassIdle
    /\ MarkIdle
    /\ PoolIdle
    /\ ExtIdle

SpecFetch == FetchInit /\ [][FetchNext]_vars

\* SpecPace starts with NumFetches get_page_content calls that follow no
\* sleep of their caller (the call of find_max_page_for_singer for the first
\* unit of a pass), of any of the three crawlers, with safe mode on or off,
\* and for the SongCrawler with a pool of at most one proxy.
PaceInit ==
    /\ crawler \in {"song", "safe", "singer"}
    /\ use_proxy \in BOOLEAN
    /\ crawler # "song" => ~use_proxy
    /\ max_retries \in 1..MaxRetries
    /\ FetchQueued("pick")
    /\ proxies = <<>>
    /\ working_proxies \in (IF AsksPool
                             THEN { w \in ProxyLists : Len(w) <= 1 }
                             ELSE { <<>> })
    /\ failed_proxies = {}
    /\ rpc = "idle"
    /\ probe = <<>>
    /\ was_working = <<>>
    /\ variant = "song"
    /\ safe_mode \in BOOLEAN
    /\ max_workers = 1
    /\ output_file = FALSE
    /\ PassQueued
    /\ StoreIdle
    /\ CacheIdle
    /\ MarkIdle
    /\ PoolIdle
    /\ ExtIdle

SpecPace == PaceInit /\ [][FetchNext]_vars

\* SpecProxy starts with a pool whose working list holds anything (loaded
\* from working_proxies.json, or left by an earlier refresh).
ProxyInit ==
    /\ proxies = <<>>
    /\ working_proxies \in ProxyLists
    /\ failed_proxies = {}
    /\ rpc = "idle"
    /\ probe = <<>>
    /\ was_working = <<>>
    /\ StoreIdle
    /\ CacheIdle
    /\ PassIdle
    /\ MarkIdle
    /\ PoolIdle
    /\ FetchIdle
    /\ ExtIdle

SpecProxy == ProxyInit /\ [][ProxyNext]_vars

\* SpecStatus starts from the pool as ProxyPool.__init__ leaves it.
StatusInit ==
    /\ ProxyIdle
    /\ StoreIdle
    /\ CacheIdle
    /\ PassIdle
    /\ MarkIdle
    /\ PoolIdle
    /\ FetchIdle
    /\ ExtIdle

SpecStatus == StatusInit /\ [][StatusNext]_vars

\* SpecSingers starts when the pages of the listing have been crawled, with
\* any candidates in singers_data.
SingersInit ==
    /\ singers_data \in SeqsUpTo(SingerInfos, MaxSingers)
    /\ unique_singers = <<>>
    /\ dedup_i = -1
    /\ collected = <<>>
    /\ StatusIdle
    /\ BatchIdle
    /\ StoreIdle
    /\ CacheIdle
    /\ PassIdle
    /\ MarkIdle
    /\ PoolIdle
    /\ ProxyIdle
    /\ FetchIdle

SpecSingers == SingersInit /\ [][SingersNext]_vars

\* SpecDownload starts with a list of songs of which each was downloaded by
\* an earlier run or not (its file, stem.mp3 or another extension, is there
\* or not) and is entered in downloaded_cache.json 10 days ago, 200 days
\* ago or not at all.
BatchInit ==
    /\ overwrite_existing \in BOOLEAN
    /\ downloaded_index \in
          [Songs -> { NoEntry, Stamp(Day0 - 10), Stamp(Day0 - 200) }]
    /\ target \in [Songs -> { "none", "complete" }]
    /\ other_ext \in [Songs -> BOOLEAN]
    /\ spc = [t \in Songs |-> "listed"]
    /\ dl_attempt = [t \in Songs |-> 0]
    /\ requests = [t \in Songs |-> 0]
    /\ seen = [t \in Songs |-> "unseen"]
    /\ limit = 0
    /\ ui_mode = "batch"
    /\ calls = 1
    /\ downloaded_count = 0
    /\ failed_count = 0
    /\ index_file = IndexText(downloaded_index)
    /\ idx_buf = [t \in Songs |-> NoBuf]
    /\ started = [t \in Songs |-> 0]
    /\ PassIdle
    /\ mode = "download"
    /\ requested = 1
    /\ dl_requested = 0
    /\ dl_max_workers = DownloaderWorkers(safe_mode, dl_requested)
    /\ dpc = [j \in Jobs |-> "absent"]
    /\ StatusIdle
    /\ SingersIdle
    /\ StoreIdle
    /\ CacheIdle
    /\ MarkIdle
    /\ ProxyIdle
    /\ FetchIdle

SpecDownload == BatchInit /\ [][DownloadBatchNext]_vars

NumPicked == 2    \* songs of the list one download action hands over
MaxLimit == 1     \* largest download limit configured

Picked == 1..NumPicked

\* SpecAction starts when the download action of the interactive interface,
\* by singer or by song (where it does what every other caller of
\* download_songs_list does), has made its SongDownloader and has its list
\* of songs: the file of each song is there or not, and downloaded_cache.json
\* has no entries; the limit is None or a number, safe mode is on or off.
ActionInit ==
    /\ overwrite_existing = FALSE
    /\ downloaded_index = [t \in Picked |-> NoEntry]
    /\ target \in [Picked -> { "none", "complete" }]
    /\ other_ext = [t \in Picked |-> FALSE]
    /\ spc = [t \in Picked |-> "listed"]
    /\ dl_attempt = [t \in Picked |-> 0]
    /\ requests = [t \in Picked |-> 0]
    /\ seen = [t \in Picked |-> "unseen"]
    /\ limit \in 0..MaxLimit
    /\ ui_mode \in {"singer", "song"}
    /\ calls = 1
    /\ downloaded_count = 0
    /\ failed_count = 0
    /\ index_file = IndexText(downloaded_index)
    /\ idx_buf = [t \in Picked |-> NoBuf]
    /\ started = [t \in Picked |-> 0]
    /\ variant = "song"
    /\ safe_mode \in BOOLEAN
    /\ max_workers = 1
    /\ output_file = FALSE
    /\ PassQueued
    /\ mode = "download"
    /\ requested = 1
    /\ dl_requested = 0
    /\ dl_max_workers = DownloaderWorkers(safe_mode, dl_requested)
    /\ dpc = [j \in Jobs |-> "absent"]
    /\ StatusIdle
    /\ SingersIdle
    /\ StoreIdle
    /\ CacheIdle
    /\ MarkIdle
    /\ ProxyIdle
    /\ FetchIdle

SpecAction == ActionInit /\ [][ActionNext]_vars

\* SongCrawler(max_workers, use_proxy): max_workers = 1 if safe_mode. The
\* SafeCrawler is built with max_workers = 1 and is given no output_file.
\* Each singer was either never crawled or crawled 10 days ago. In safe mode
\* the caller asks for MaxWorkers workers (whatever it asks for, it gets 1).
Init ==
    /\ variant \in {"song", "safe"}
    /\ safe_mode \in BOOLEAN
    /\ mode = "songs"
    /\ requested \in (IF variant = "safe" THEN { 1 }
                      ELSE IF safe_mode THEN { MaxWorkers }
                      ELSE 1..MaxWorkers)
    /\ max_workers = CrawlerWorkers(safe_mode, requested)
    /\ output_file \in BOOLEAN
    /\ variant = "safe" => ~output_file
    /\ PassQueued
    /\ cache \in [Units -> { NoEntry, Stamp(Day0 - 10) }]
    /\ cache_file = CacheObject(cache)
    /\ now = Day0
    /\ cfg_days = Digits(DefaultCacheDays)
    /\ verdict = NoVerdict
    /\ StoreIdle
    /\ DownloadIdle
    /\ MarkIdle
    /\ ProxyIdle
    /\ FetchIdle
    /\ ExtIdle

Next == PassNext

Spec == Init /\ [][Next]_vars

\* A pass under conservative pacing: safe mode is on, or the crawler is the
\* SafeCrawler.
LiveInit == Init /\ (safe_mode \/ variant = "safe")

\* That pass with every thread that can take a step taking one in the end:
\* every fetch returns or fails, every worker is scheduled.
SpecLive == LiveInit /\ [][Next]_vars /\ WF_vars(Next)

\* No crawl pass in this run.
PassAbsent ==
    /\ variant = "song"
    /\ max_workers = 1
    /\ output_file = FALSE
    /\ pc = [u \in Units |-> "absent"]
    /\ max_page = [u \in Units |-> 0]
    /\ page_num = [u \in Units |-> 0]
    /\ singer_songs = [u \in Units |-> <<>>]
    /\ fetches = [u \in Units |-> 0]
    /\ freshAtStart = [u \in Units |-> FALSE]
    /\ marked = [u \in Units |-> FALSE]
    /\ raised = [u \in Units |-> FALSE]
    /\ fl = [u \in Units |-> "none"]
    /\ existing = [u \in Units |-> Absent]
    /\ log = [u \in Units |-> <<>>]

\* main_crawler --mode download: a SongDownloader built with the caller's
\* max_workers, its songs submitted to the pool.
DownloadInit ==
    /\ mode = "download"
    /\ safe_mode \in BOOLEAN
    /\ requested = 1
    /\ dl_requested \in 0..MaxWorkers
    /\ dl_max_workers = DownloaderWorkers(safe_mode, dl_requested)
    /\ dpc = [j \in Jobs |-> "queued"]
    /\ PassAbsent
    /\ StoreIdle
    /\ CacheIdle
    /\ MarkIdle
    /\ ProxyIdle
    /\ FetchIdle
    /\ ExtIdle

\* SpecPools: a run that crawls (--mode songs) or one that downloads.
PoolsInit == Init \/ DownloadInit

SpecPools == PoolsInit /\ [][PoolsNext]_vars

(***************************************************************************)
(* Properties                                                              *)
(***************************************************************************)

Contains(songs, s) == \E j \in DOMAIN songs : songs[j] = s

\* C1: a singer whose cache entry is fresh when its unit is started is never
\* fetched (no max-page fetch, no listing-page fetch) and yields no record,
\* in every crawler variant.
C1_FreshUnitNeverFetched ==
    \A u \in Units :
        freshAtStart[u] => fetches[u] = 0 /\ singer_songs[u] = <<>>

\* C2: a unit that has finished was marked in the recrawl cache if and only
\* if it produced at least one record and raised no exception.
C2_MarkedIffRecords ==
    \A u \in Units :
        (variant = "song" /\ pc[u] = "returned") =>
            (marked[u] <=> (singer_songs[u] # <<>> /\ ~raised[u]))

\* C3: the flushes of completed units into the one output file never
\* overlap, and once a unit's flush has finished the file holds every
\* record of that unit, whatever other units were flushed meanwhile.
C3_FlushesSerialized ==
    /\ Cardinality({ u \in Units : fl[u] = "reading" }) <= 1
    /\ \A u \in Units :
          (output_file /\ fl[u] = "done") =>
              \A i \in DOMAIN singer_songs[u] :
                  Contains(ExistingSongs(file), singer_songs[u][i])

\* Two units crawled by two workers have both been flushed, each with a
\* record of its own.
C3_TwoUnitsFlushed ==
    /\ output_file
    /\ max_workers >= 2
    /\ \E u, v \in Units :
          /\ u # v
          /\ fl[u] = "done" /\ singer_songs[u] # <<>>
          /\ fl[v] = "done" /\ singer_songs[v] # <<>>
          /\ Contains(ExistingSongs(file), singer_songs[u][1])
          /\ Contains(ExistingSongs(file), singer_songs[v][1])

\* C4: the dataset file is append-only: a key stored by a completed write is
\* still stored after every later completed write.
C4_AppendOnly == [][committed \subseteq committed']_vars

\* C5: after a crash, every record merged by a flush that had completed is
\* still in the file and the file can be loaded.
C5_CrashKeepsMerged ==
    lastMerge.op = "crash" =>
        /\ file.kind # "corrupt"
        /\ committed \subseteq Keys(ExistingSongs(file))

MergeOps == {"merge", "interactive", "manager"}

\* A merge has just completed on a destination it could read.
MergeCompleted ==
    /\ wr = NoWrite
    /\ lastMerge.op \in MergeOps
    /\ ~lastMerge.failed
    /\ ~lastMerge.fallback
    /\ file.kind = "ok"

\* C6: merging is idempotent: once a list of records has been merged into a
\* dataset, merging the same list again would write the same records and
\* the same counts (total, groups, per group).
C6_MergeIdempotent ==
    MergeCompleted => MergeOut(file, lastMerge.new) = file

\* A list of two records was merged into a dataset that held others.
C6_MergedTwice ==
    /\ MergeCompleted
    /\ lastMerge.op = "manager"
    /\ lastMerge.new = <<Rec("a", "A", "X"), Rec("", "A", "X")>>
    /\ Len(file.songs) = 3
    /\ file.total_singers = 2

\* The key of the claim: the id when present, else singer_name::title.
RecordKey(s) == IF s.id = "" THEN s.singer_name \o "::" \o s.title ELSE s.id

\* The last record of the list with key k.
LastWithKey(new, k) ==
    LET last == CHOOSE i \in DOMAIN new :
                    /\ RecordKey(new[i]) = k
                    /\ \A j \in DOMAIN new : RecordKey(new[j]) = k => j <= i
    IN  new[last]

\* C7: last writer wins by key: after a merge, the one record stored under
\* the key of a new record is the last new record with that key, whatever
\* the titles' lengths.
C7_LastWriterWins ==
    MergeCompleted =>
        \A i \in DOMAIN lastMerge.new :
            LET k == RecordKey(lastMerge.new[i])
                stored == { j \in DOMAIN file.songs :
                                RecordKey(file.songs[j]) = k }
            IN  /\ Cardinality(stored) = 1
                /\ \A j \in stored :
                      file.songs[j] = LastWithKey(lastMerge.new, k)

\* Titles "A" then "A - Live" were merged under the id a: "A - Live" is
\* stored.
C7_LiveTitleStored ==
    /\ MergeCompleted
    /\ lastMerge.new = <<Rec("a", "A", "X"), Rec("a", "A - Live", "X")>>
    /\ Contains(file.songs, Rec("a", "A - Live", "X"))
    /\ ~Contains(file.songs, Rec("a", "A", "X"))

\* C8: whenever the dataset file has been written, its counts are those of
\* the records it holds: per-group counts, number of groups, total.
C8_CountsMatchRecords ==
    file.kind = "ok" => file = Counted(file.songs)

\* C9: in every dataset written, the recorded size is the number of distinct
\* record keys, and no two stored records share a key.
C9_SizeIsDistinctKeys ==
    file.kind = "ok" =>
        /\ file.total_songs = Cardinality(Keys(file.songs))
        /\ Len(file.songs) = Cardinality(Keys(file.songs))

\* C10: _is_recent answers True exactly when a timestamp is stored for the
\* singer and now minus it is strictly less than the TTL; with the TTL at 28
\* days a success 10 days ago is skipped, one 40 days ago is crawled again.
C10_FreshIffWithinTtl ==
    \A u \in Units :
        verdict[u] # "unasked" =>
            /\ verdict[u] = "skip" <=>
                  (cache[u].kind = "ts" /\ now - cache[u].ts < CacheDays)
            /\ (CacheDays = 28 /\ cache[u] = Stamp(now - 10)) =>
                  verdict[u] = "skip"
            /\ (CacheDays = 28 /\ cache[u] = Stamp(now - 40)) =>
                  verdict[u] = "crawl"

\* With the TTL at 28 days, one singer marked 10 days ago was skipped and
\* one marked 40 days ago is crawled.
C10_TenSkippedFortyCrawled ==
    /\ CacheDays = 28
    /\ \E u, v \in Units :
          /\ cache[u] = Stamp(now - 10) /\ verdict[u] = "skip"
          /\ cache[v] = Stamp(now - 40) /\ verdict[v] = "crawl"

\* No write of crawl_cache.json is under way.
NoSaveUnderWay == \A v \in Units : mk[v] # "dumping"

C12_IrregularCacheNeverPropagates ==
    /\ \A f \in { CacheAbsent, CacheUnreadable, CacheNotObject } :
          LoadCache(f) = EmptyCache
    /\ \A u \in Units :
          (verdict[u] # "unasked" /\ cache[u].kind # "ts") =>
              verdict[u] = "crawl"

\* Conservative pacing: safe mode, or the SafeCrawler.
Pacing == safe_mode \/ variant = "safe"

\* Every unit has returned and, where crawl_all_songs handles the results,
\* has been handled.
AllTerminal ==
    \A u \in Units :
        pc[u] = "returned" /\ (variant = "song" => fl[u] \in {"done", "failed"})

\* C13: with conservative pacing the pass runs its units one at a time, on
\* a single worker, and every unit reaches a terminal state in the end.
C13_PacedPassCompletes ==
    /\ [](Pacing => Cardinality(Running) <= 1 /\ max_workers = 1)
    /\ (Pacing => <>AllTerminal)

\* In safe mode every unit was fetched for and has ended.
C13_PacedPassEnded ==
    /\ safe_mode
    /\ variant = "song"
    /\ AllTerminal
    /\ \A u \in Units : fetches[u] > 0

\* C14: the units in progress in the crawl pool never exceed max_workers,
\* the songs in progress in the download pool never exceed the downloader's
\* max_workers, and in safe mode each pool has at most one in progress,
\* whatever max_workers the caller passed.
C14_PoolsBounded ==
    /\ Cardinality(Running) <= max_workers
    /\ Cardinality(Downloading) <= dl_max_workers
    /\ safe_mode =>
          /\ Cardinality(Running) <= 1
          /\ Cardinality(Downloading) <= 1

\* In safe mode, with more than one worker asked for, one unit runs while
\* another waits.
C14_SafeModeOneRunning ==
    /\ safe_mode
    /\ requested > 1
    /\ \E u, v \in Units : u \in Running /\ pc[v] = "queued"

\* C15: with proxying enabled and no working endpoint (at the start or
\* after every endpoint was reported as failed), an attempt is still made,
\* as a direct request; the fetch gives up only after max_retries attempts.
C15_EmptyPoolGoesDirect ==
    \A f \in Fetches :
        /\ (AsksPool /\ fpc[f] = "request" /\ pickedFrom[f] = <<>>) =>
              route[f] = "direct"
        /\ (AsksPool /\ fpc[f] = "exhausted") => made[f] = max_retries

\* Every endpoint was reported as failed, and the attempt that followed is
\* under way as a direct request.
C15_DirectAfterEviction ==
    \E f \in Fetches :
        /\ AsksPool
        /\ failed_proxies # {}
        /\ fpc[f] = "request"
        /\ pickedFrom[f] = <<>>
        /\ route[f] = "direct"

\* C16: when an attempt that used a proxy has failed, the proxy has been
\* reported before the same fetch picks again: at the retry's pick no
\* endpoint with the failed address is in the working list.
C16_ReportedBeforeRetry ==
    \A f \in Fetches :
        (attempt[f] > 0 /\ failedWith[f] # NoProxy) =>
            /\ fpc[f] = "pick" =>
                  \A i \in DOMAIN working_proxies :
                      ProxyKey(working_proxies[i]) # ProxyKey(failedWith[f])
            /\ fpc[f] = "request" =>
                  /\ ProxyKey(failedWith[f]) \in failed_proxies
                  /\ \A i \in DOMAIN pickedFrom[f] :
                        ProxyKey(pickedFrom[f][i]) # ProxyKey(failedWith[f])

\* A retry, after an attempt through a proxy failed, goes through another
\* proxy.
C16_RetryThroughOtherProxy ==
    \E f \in Fetches :
        /\ fpc[f] = "request"
        /\ attempt[f] > 0
        /\ failedWith[f] # NoProxy
        /\ current_proxy[f] # NoProxy

\* C17: get_page_content never raises to its caller, in any crawler: it
\* makes at most max_retries attempts, returns at the first that succeeds,
\* and returns None after max_retries failed ones.
C17_FetchNeverRaises ==
    \A f \in Fetches :
        /\ fpc[f] # "raised"
        /\ made[f] <= max_retries
        /\ fpc[f] = "exhausted" => made[f] = max_retries
        /\ fpc[f] = "returned" => made[f] = attempt[f] + 1

\* C18: get_random_proxy returns a member of the working list as it is at
\* the call, returns None exactly when that list is empty, and is never
\* kept waiting.
C18_PickIsWorkingMember ==
    \A f \in Fetches :
        /\ (AsksPool /\ fpc[f] = "request") =>
              /\ current_proxy[f] = NoProxy <=> pickedFrom[f] = <<>>
              /\ current_proxy[f] # NoProxy =>
                    current_proxy[f] \in Members(pickedFrom[f])
        /\ fpc[f] = "pick" => ENABLED PickProxy(f)

\* After an endpoint was reported as failed, a pick returned one of those
\* left.
C18_PickedAmongLeft ==
    \E f \in Fetches :
        /\ AsksPool
        /\ fpc[f] = "request"
        /\ failed_proxies # {}
        /\ current_proxy[f] # NoProxy

\* C19: mark_proxy_failed(e) leaves no endpoint with e's ip:port in the
\* working list and keeps every endpoint with another address; reporting e
\* again, or an endpoint that is not there, changes nothing; and every
\* endpoint reported by any fetch is absent.
C19_ReportRemovesByAddress ==
    /\ lastReport.proxy # NoProxy =>
          LET p == lastReport.proxy
              b == lastReport.before
              a == lastReport.after
          IN  /\ \A i \in DOMAIN a : ProxyKey(a[i]) # ProxyKey(p)
              /\ \A e \in Endpoints :
                    ProxyKey(e) # ProxyKey(p) => Count(a, e) = Count(b, e)
              /\ (\A i \in DOMAIN b : ProxyKey(b[i]) # ProxyKey(p)) => a = b
              /\ MarkProxyFailed(a, p) = a
    /\ \A i \in DOMAIN working_proxies :
          ProxyKey(working_proxies[i]) \notin failed_proxies

\* A report removed an endpoint and left another one working.
C19_OneRemovedOneLeft ==
    /\ lastReport.proxy # NoProxy
    /\ Len(lastReport.after) < Len(lastReport.before)
    /\ lastReport.after # <<>>

\* The candidates whose probe returned status 200, with the positions they
\* hold in proxies.
Passed == { i \in DOMAIN proxies : probe[i] = "200" }

\* C20: after refresh_proxies the working list holds exactly the candidates
\* whose probe returned HTTP 200, each as often as it passed; an endpoint
\* that worked before the refresh is there only as such a candidate.
C20_WorkingAreProbed200 ==
    rpc = "done" =>
        /\ \A e \in Endpoints :
              Count(working_proxies, e) =
                  Cardinality({ i \in Passed : proxies[i] = e })
        /\ \A e \in Members(was_working) :
              e \in Members(working_proxies) =>
                  \E i \in Passed : proxies[i] = e

\* An endpoint that worked before the refresh and is a candidate again, but
\* answered with another status, is gone; one that passed is working.
C20_FormerWorkerDropped ==
    /\ rpc = "done"
    /\ working_proxies # <<>>
    /\ \E i \in DOMAIN proxies :
          /\ probe[i] = "404"
          /\ proxies[i] \in Members(was_working)
          /\ proxies[i] \notin Members(working_proxies)

\* C21: get_status() reports the lengths of the candidate list, of the
\* working list and of the failed set as they are when it is called, and a
\* success rate that is 0 when the candidate list is empty, in every state of
\* the pool that refresh, load, add, pick and a reported failure lead to; it
\* never raises.
C21_StatusCountsAndGuardedRatio ==
    status.called =>
        /\ ~status.raised
        /\ status.total_proxies = Len(proxies)
        /\ status.working_proxies = Len(working_proxies)
        /\ status.failed_proxies = Cardinality(failed_proxies)
        /\ Len(proxies) = 0 => status.success_rate = 0
        /\ Len(proxies) > 0 =>
              status.success_rate = Percent(Len(working_proxies),
                                            Len(proxies)).value

\* A status taken after load_proxies alone: working proxies, no candidate.
C21_StatusOfLoadedPool ==
    /\ status.called
    /\ ~status.raised
    /\ status.total_proxies = 0
    /\ status.working_proxies > 0
    /\ status.success_rate = 0

\* C22: after the download of a song has failed, no zero-byte file is at the
\* song's target path.
C22_NoEmptyFileAfterFailure ==
    \A t \in Songs : spc[t] = "failed" => target[t] # "empty"

\* C23: the target path never holds a partly written payload, at any moment
\* a crash may come, and the file a later run finds there and takes for a
\* finished download holds the whole payload.
C23_TargetNeverPartial ==
    \A t \in Songs :
        /\ target[t] # "partial"
        /\ seen[t] = "target" => target[t] = "complete"

\* C24: a song whose entry in the download cache is within its TTL, or of
\* which a file with one of the allowed extensions exists, leaves the filter
\* of the batch as skipped, and no request is ever made for a skipped song;
\* where the file was what was found, the cache holds an entry for the song
\* from then on.
C24_KnownSongsMakeNoRequest ==
    /\ [][\A t \in Songs :
            (/\ spc[t] = "listed"
             /\ spc'[t] # "listed"
             /\ (IsCached(t) \/ target[t] # "none" \/ other_ext[t]))
            => /\ spc'[t] = "skipped"
               /\ requests'[t] = 0
               /\ ~IsCached(t) => downloaded_index'[t] = Stamp(now)]_vars
    /\ [](\A t \in Songs : spc[t] = "skipped" => requests[t] = 0)

\* A song without entry in the cache, of which a file with another extension
\* than download_song would write exists: skipped, entered, nothing requested.
C24_SkippedByOtherExtension ==
    \E t \in Songs :
        /\ spc[t] = "skipped"
        /\ seen[t] = "other"
        /\ target[t] = "none"
        /\ downloaded_index[t] = Stamp(now)
        /\ requests[t] = 0

\* C25: of a song handed to a batch entry point whose target file exists (and
\* whose cache entry does not already settle it), with overwrite_existing the
\* file is deleted and the song requested again, without it the song counts
\* as done and nothing is requested.
C25_OverwriteRefetchesExisting ==
    \A t \in Songs :
        (seen[t] = "target" /\ spc[t] \in {"skipped", "done", "failed"}) =>
            IF overwrite_existing
            THEN requests[t] > 0
            ELSE spc[t] \in {"skipped", "done"} /\ requests[t] = 0

UnitState(u) ==
    IF pc[u] = "queued" THEN "Pending"
    ELSE IF pc[u] \in {"find_max_page", "pages", "finish"} THEN "InProgress"
    ELSE IF raised[u] THEN "Failed"
    ELSE IF ChecksCache /\ freshAtStart[u] THEN "SkippedFresh"
    ELSE "Completed"

UnitTransitions ==
    { <<"Pending", "SkippedFresh">>, <<"Pending", "InProgress">>,
      <<"InProgress", "Completed">>, <<"InProgress", "Failed">> }

\* C27: a unit changes its state only from Pending to SkippedFresh or
\* InProgress and from InProgress to Completed or Failed; no step leaves
\* SkippedFresh, Completed or Failed; and the pass cannot come to rest while
\* a unit is Pending or InProgress, so that each unit ends in one of the three.
C27_UnitStateMachine ==
    /\ [][\A u \in Units :
            UnitState(u)' # UnitState(u) =>
                <<UnitState(u), UnitState(u)'>> \in UnitTransitions]_vars
    /\ []((\E u \in Units : UnitState(u) \in {"Pending", "InProgress"})
             => ENABLED Next)

\* A pass in which one unit failed and another completed with records.
C27_OneFailedOneCompleted ==
    \E u, v \in Units :
        /\ UnitState(u) = "Failed"
        /\ UnitState(v) = "Completed"
        /\ singer_songs[v] # <<>>

\* The listing fetches of a unit's log, in the order they were made.
PageFetches(u) == SelectSeq(log[u], LAMBDA e : e.what = "page")

\* The records of the fetches that brought a payload, in order.
RECURSIVE Gathered(_)
Gathered(entries) ==
    IF entries = <<>> THEN <<>>
    ELSE (IF Head(entries).ok THEN Head(entries).songs ELSE <<>>)
             \o Gathered(Tail(entries))

\* C28: when the loop over the pages of a unit is over, a fetch was made for
\* each page 1..max_page, whether or not the fetches before it brought a
\* payload, and the unit's result holds the records of the pages that did.
C28_EveryPageTriedAndKept ==
    \A u \in Units :
        pc[u] = "finish" =>
            /\ Len(PageFetches(u)) = max_page[u]
            /\ \A i \in 1..max_page[u] : PageFetches(u)[i].page = i
            /\ singer_songs[u] = Gathered(PageFetches(u))

\* A unit whose first page failed and whose second page brought a record.
C28_SecondPageAfterFailedFirst ==
    \E u \in Units :
        /\ pc[u] = "finish"
        /\ Len(PageFetches(u)) >= 2
        /\ ~PageFetches(u)[1].ok
        /\ PageFetches(u)[2].ok
        /\ singer_songs[u] # <<>>

\* C29: the first fetch of a unit is the discovery of max_page, every fetch
\* after it is a listing fetch, the listing fetches go through the pages
\* 1, 2, ... in this order up to max_page at most, and max_page is 1 where
\* the discovery brought no payload.
C29_DiscoveryThenPagesInOrder ==
    \A u \in Units :
        /\ pc[u] \in {"pages", "finish"} => log[u] # <<>>
        /\ log[u] # <<>> =>
              /\ log[u][1].what = "extent"
              /\ \A i \in 2..Len(log[u]) :
                    /\ log[u][i].what = "page"
                    /\ log[u][i].page = i - 1
                    /\ log[u][i].page <= max_page[u]
              /\ ~log[u][1].ok => max_page[u] = 1

\* One unit whose discovery brought no payload and whose page 1 was fetched
\* all the same, beside one whose discovery found two pages, fetched in order.
C29_PageOneAfterEmptyDiscovery ==
    \E u, v \in Units :
        /\ Len(log[u]) = 2
        /\ ~log[u][1].ok
        /\ log[u][2].what = "page"
        /\ log[u][2].page = 1
        /\ log[u][2].ok
        /\ Len(log[v]) = 3
        /\ log[v][1].ok
        /\ log[v][2].page = 1
        /\ log[v][3].page = 2

\* The units that have produced a record the dataset file does not hold.
Unflushed ==
    { u \in Units :
        \E i \in DOMAIN singer_songs[u] :
           ~Contains(ExistingSongs(file), singer_songs[u][i]) }

\* C30: in a pass that was given an output_file, at every moment at which
\* the process may be interrupted, the records produced so far and missing
\* from the file are those of one unit at most.
C30_AtMostOneUnitUnflushed ==
    output_file => Cardinality(Unflushed) <= 1

\* The entry of a unit in the cache file, as the next run will load it, is
\* within the TTL.
FreshOnDisk(u) ==
    LET entry == LoadCache(cache_file)[u]
    IN  entry.kind = "ts" /\ now - entry.ts < CacheDays

\* C31: a unit's entry in the cache, in memory and in the file, is changed
\* by no step but the end of that unit's call without exception; a unit whose
\* handling raised is not recorded, yields no records, and is not fresh for
\* the run that loads the file next.
C31_FailureLeavesCache ==
    /\ [][\A u \in Units :
            (\/ cache'[u] # cache[u]
             \/ LoadCache(cache_file')[u] # LoadCache(cache_file)[u])
            => (pc[u] = "finish" /\ pc'[u] = "returned" /\ ~raised'[u])]_vars
    /\ [](\A u \in Units :
            (raised[u] /\ pc[u] = "returned") =>
                /\ ~marked[u]
                /\ singer_songs[u] = <<>>
                /\ ChecksCache => ~FreshOnDisk(u))

\* A unit raised after a page of it had brought records, while another unit
\* was recorded in the cache file.
C31_RaisedBesideRecorded ==
    \E u, v \in Units :
        /\ raised[u]
        /\ pc[u] = "returned"
        /\ fetches[u] >= 2
        /\ ~FreshOnDisk(u)
        /\ marked[v]
        /\ FreshOnDisk(v)

\* The records of a unit are in the dataset file.
Flushed(u) ==
    \A i \in DOMAIN singer_songs[u] :
        Contains(ExistingSongs(file), singer_songs[u][i])

PacingActive == safe_mode \/ crawler = "safe"

\* C33: with conservative pacing active, whenever a request of a fetch is
\* under way, the thread slept (the delay before the request, or at least
\* the backoff after the attempt before) since the request before it.
C33_EveryAttemptPaced ==
    \A f \in Fetches :
        (PacingActive /\ fpc[f] = "request") => slept[f] # "none"

\* C34: a merge called on a destination that is absent or unreadable (the
\* step in which it opens the file for writing, or catches what reading the
\* file raised) writes exactly the new records, one per key, with the counts
\* taken from them.
C34_UnreadableTreatedAsEmpty ==
    [][(/\ wr = NoWrite
        /\ file.kind # "ok"
        /\ \/ wr' # NoWrite /\ wr'.op \in MergeOps
           \/ lastMerge' # lastMerge /\ lastMerge'.op \in MergeOps
                                     /\ lastMerge'.failed)
        => (wr' # NoWrite
            /\ wr'.out = Counted(Overlay(<<>>, wr'.new)))]_vars

\* The candidates collected for an id, by position.
CandidatesOf(id) == { i \in DOMAIN collected : collected[i].id = id }

\* The dedup pass has ended.
DedupDone == dedup_i = -1 /\ collected # <<>>

\* C36: after the dedup pass singers_data holds exactly one record per id of
\* the candidates, and it is the candidate of that id with the longest name,
\* the first one among equally long.
C36_OnePerIdLongestName ==
    DedupDone =>
        /\ \A i, j \in DOMAIN singers_data :
              singers_data[i].id = singers_data[j].id => i = j
        /\ { singers_data[i].id : i \in DOMAIN singers_data }
              = { collected[i].id : i \in DOMAIN collected }
        /\ \A k \in DOMAIN singers_data :
              \E i \in CandidatesOf(singers_data[k].id) :
                 /\ singers_data[k] = collected[i]
                 /\ \A j \in CandidatesOf(singers_data[k].id) :
                       /\ Len(collected[j].name) <= Len(collected[i].name)
                       /\ (Len(collected[j].name) = Len(collected[i].name))
                             => i <= j

\* Reached: three candidates of one id, a short name first, then two longer
\* ones of equal length, of which the first is kept.
C36_FirstOfEquallyLong ==
    /\ DedupDone
    /\ Len(collected) = 3
    /\ \A i \in DOMAIN collected : collected[i].id = collected[1].id
    /\ Len(collected[1].name) < Len(collected[2].name)
    /\ Len(collected[2].name) = Len(collected[3].name)
    /\ collected[2] # collected[3]
    /\ singers_data = <<collected[2]>>

\* C37: a unit that this pass recorded, and whose entry in the cache file
\* the next run will find fresh, has all the records it produced in the
\* dataset file.
C37_FreshOnlyAfterFlush ==
    \A u \in Units : (marked[u] /\ FreshOnDisk(u)) => Flushed(u)

\* The songs for which the call under way has started download_song, those
\* it has submitted, and those its filter did not find downloaded.
StartedNow == { t \in Listed : spc[t] \in InFlight \cup {"done", "failed"} }
Taken == StartedNow \cup { t \in Listed : spc[t] = "submitted" }
Missing == { t \in Listed : seen[t] = "missing" }

\* C35: a call with limit L starts at most L downloads, each for a song its
\* filter did not find downloaded, and these are the first of such songs in
\* the order of the list: once the list is filtered, L of them, or all of
\* them if there are fewer, whatever number of downloaded songs lie between.
C35_LimitCountsNewSongs ==
    limit > 0 =>
        /\ Cardinality(StartedNow) <= limit
        /\ \A t \in Taken :
              /\ seen[t] = "missing"
              /\ \A v \in Missing : v < t => v \in Taken
        /\ (\A t \in Listed : spc[t] # "listed") =>
              Cardinality(Taken) =
                 (IF Cardinality(Missing) < limit
                  THEN Cardinality(Missing) ELSE limit)

\* Reached: with limit 1, the first song of the list was found on disk and
\* the second has been downloaded.
C35_SecondSongAfterDownloadedFirst ==
    /\ limit = 1
    /\ calls = 1
    /\ seen[1] = "target"
    /\ spc[1] = "skipped"
    /\ seen[2] = "missing"
    /\ spc[2] = "done"
    /\ target[2] = "complete"

RECURSIVE StartedUpTo(_)
StartedUpTo(n) == IF n = 0 THEN 0 ELSE started[n] + StartedUpTo(n - 1)

\* The download_song calls begun since the downloader was made.
DownloadsStarted == StartedUpTo(Cardinality(Listed))

\* C38: when the calls of download_song have all returned, downloaded_count
\* and failed_count add up to the number of calls begun, and (in the first
\* batch) downloaded_count is the number of calls that returned True.
C38_CountsEveryDownload ==
    AtRest =>
        /\ downloaded_count + failed_count = DownloadsStarted
        /\ calls = 1 =>
              downloaded_count = Cardinality({ t \in Listed : spc[t] = "done" })

\* C39: when the batch has ended, every song downloaded in it has, in the
\* file downloaded_cache.json as the next run loads it, the entry that
\* _mark_downloaded made for it.
C39_IndexFileHasEveryDownload ==
    AtRest =>
        \A t \in Listed :
            (spc[t] = "done" /\ downloaded_index[t] # NoEntry)
            => LoadIndex(index_file)[t] = downloaded_index[t]

\* C40: one download action calls the downloader once, and with a limit it
\* starts at most that many downloads.
C40_ActionHandsOverOnce ==
    /\ calls <= 1
    /\ limit > 0 => DownloadsStarted <= limit

====
